---- MODULE Spec2Model ----
(***************************************************************************)
(* Verification model of the derived-table propagation and lifecycle core: *)
(*   - copyData                          (DataStreams/copyData.cpp)        *)
(*   - PushingToViewsBlockOutputStream   (the fan-out writer)              *)
(*   - ExternalLoader                    (the loadable registry)           *)
(*   - StorageMaterializedView           (refresh / read / scheduling)     *)
(* Each subsystem has its own specification (SpecCopy, SpecFan, SpecReg,   *)
(* SpecMV) over its own variables; the variables of the other subsystems   *)
(* stay at their initial values.                                           *)
(***************************************************************************)
EXTENDS Integers, Sequences, FiniteSets, TLC

(***************************************************************************)
(* Bounds of the model.                                                    *)
(***************************************************************************)
\* longest input stream given to copyData
MaxBlocks == 3
\* number of operations issued on a fan-out writer
MaxOps == 3
\* largest number of dependent views of the base table
MaxViews == 2
\* number of tables the catalog ever holds: the first target and one per refresh
MaxTables == 3
\* last second of the clock of the materialized view
MaxTime == 4
\* last second of the clock of the registry
MaxRegTime == 2
\* largest modification time a configuration file gets
MaxMtime == 2
\* largest number of blocks written into the aggregating table
MaxAggWrites == 3
\* largest number of operations on a constructed view and its target
MaxLifeOps == 3
\* largest number of rounds of a loop of the registry in the lock programs
MaxLockLoop == 1
\* largest number of elements under `key` or under the structure itself
MaxElems == 2

VARIABLES
    \* ---- copyData ----
    from_blocks,    \* the blocks the input stream will return, in order
    from_pos,       \* how many of them have been read
    profiling,      \* <<is IProfilingBlockInputStream, hasAppliedLimit()>>
    flag_given,     \* is_cancelled != nullptr
    is_cancelled,   \* value of the atomic flag
    cp_pc,          \* position of copyData
    block,          \* the block read by the loop head
    open_frame,
    no_data,
    to_log,         \* calls received by the sink `to`, in order, each with the
                    \* position in the input of the block it was given (0: none)
    \* ---- PushingToViewsBlockOutputStream ----
    output,         \* TRUE iff the primary sink exists (no_destination = false)
    views,          \* number of dependent view sub-writers held
    sink_log,       \* calls received by the held sinks, in order: <<sink, <<call, block>>>>,
                    \* sink 0 = primary, sink i = sub-writer of view i
    calls,          \* calls made on the writer: [prefix, suffix, flush, write]
    last_write,     \* outcome of the last write(block)
    \* ---- StorageMaterializedView and the catalog it works on ----
    catalog,            \* DatabaseCatalog: table name -> table (0: no such table)
    table_state,        \* each table: unused, empty, partial, complete, dropped
    next_table,         \* the next table the catalog creates
    with_uuid,          \* TRUE iff the tables of the database carry UUIDs
    target_table_id,    \* [table_name, uuid]
    mutex,              \* owner of StorageMaterializedView::mutex, or "none"
    rf_pc,              \* position of each thread that can run refresh
    created,            \* refresh's local `created`, per thread
    replaced,           \* refresh's local `replaced`, per thread
    rf_tmp,             \* the table refresh created as .tmp<inner>, per thread
    rf_result,          \* how the thread's last refresh ended
    last_refresh_time,
    mv_now,             \* std::chrono::system_clock::now(), in seconds
    is_periodically_refreshed,
    task_active,        \* periodic_refresh_task is activated
    task_scheduled,     \* time the task is scheduled at, or NotScheduled
    mv_life,            \* constructed, started (startup ran) or shutdown
    rd_pc,              \* position of a query that reads or writes the view
    rd_id,              \* the target id the query read
    rd_storage,         \* the table the query resolved it to
    rd_kind,            \* "read" or "write"
    rd_lock,            \* the table whose shared lock the query holds, or NoTable
    \* ---- ExternalLoader and the configuration files it reads ----
    loadable_objects_from_filesystem,   \* name -> LoadableInfo, or NoEntry
    loadable_objects_from_databases,    \* 'db.name' -> LoadableInfo, or NoEntry
    failed_loadable_objects,            \* name -> FailedLoadableInfo, or NoEntry
    update_times,                       \* name -> time of the next update
    last_modification_times,            \* config path -> modification time seen
    loadable_objects_defined_in_config, \* config path -> names declared in it
    is_initialized,
    reloading_thread,   \* TRUE iff the thread running reloadPeriodically exists
    all_mutex,          \* owner of all_mutex, or "none"
    update_settings,    \* [backoff_initial_sec, backoff_max_sec]
    object_profile,     \* what the loadables answer: [lifetime, supportUpdates]
    config_files,       \* config path -> names the file declares now, or NoFile
    config_mtime,       \* config path -> its modification time now
    reg_now,            \* std::chrono::system_clock::now(), in seconds
    th,                 \* per thread: position and locals of the running operation
    crashed,            \* TRUE iff undefined behaviour ended the process
    \* ---- StorageAggregatingMemory ----
    keys_size,          \* params.keys_size: number of grouping keys
    empty_result_for_aggregation_by_empty_set,
    many_data,          \* many_data->variants[0]: group -> count of rows
    wr_pc,              \* position of each writer inside AggregatingOutputStream::write
    wr_block,           \* the block each writer was given
    wr_result,          \* how each writer's last write ended
    executed,           \* the blocks given to executeOnBlock, in order
    agg_last,           \* the last operation that ended on the table
    read_result,        \* rows the last read returned
    agg_life,           \* live or dropped
    \* ---- StorageMaterializedView: constructor, drop, truncate ----
    query,              \* the ASTCreateQuery and table_id_.uuid given to the constructor
    db_tables,          \* table id -> absent, empty or filled
    dependencies,       \* DatabaseCatalog's edges <<source, view>>
    has_inner_table,
    view_target,        \* target_table_id of this view, names only
    inner_created,      \* TRUE iff the constructor created the inner table
    lf_pc,              \* position of the constructor; then constructed or dropped
    lf_last,            \* the last operation on the constructed view
    lf_ops,             \* number of operations on the constructed view
    \* ---- ExternalLoader: the mutexes alone ----
    lock_owner,         \* mutex -> the thread that holds it, or "none"
    lock_op,            \* thread -> the operation it is in, or "idle"
    lock_prog,          \* thread -> the lock and unlock calls its operation has yet to make
    \* ---- DictionaryStructure ----
    config,             \* the configuration under config_prefix
    structure,          \* the members of the DictionaryStructure under construction
    ds_pc               \* position of the constructor; then constructed or threw

copyVars == <<from_blocks, from_pos, profiling, flag_given, is_cancelled, cp_pc,
              block, open_frame, no_data, to_log>>
fanVars == <<output, views, sink_log, calls, last_write>>
mvVars == <<catalog, table_state, next_table, with_uuid, target_table_id, mutex, rf_pc,
            created, replaced, rf_tmp, rf_result, last_refresh_time, mv_now,
            is_periodically_refreshed, task_active, task_scheduled,
            mv_life, rd_pc, rd_id, rd_storage, rd_kind, rd_lock>>
regVars == <<loadable_objects_from_filesystem, loadable_objects_from_databases,
             failed_loadable_objects, update_times, last_modification_times,
             loadable_objects_defined_in_config, is_initialized, reloading_thread,
             all_mutex, update_settings, object_profile, config_files, config_mtime,
             reg_now, th, crashed>>
lockVars == <<lock_owner, lock_op, lock_prog>>
dictVars == <<config, structure, ds_pc>>
\* parts of mvVars
mvEnv == <<with_uuid, is_periodically_refreshed>>
taskVars == <<task_active, task_scheduled, mv_life>>
rdVars == <<rd_pc, rd_id, rd_storage, rd_kind, rd_lock>>
aggVars == <<keys_size, empty_result_for_aggregation_by_empty_set, many_data, wr_pc,
             wr_block, wr_result, executed, agg_last, read_result, agg_life>>
lifeVars == <<query, db_tables, dependencies, has_inner_table, view_target,
              inner_created, lf_pc, lf_last, lf_ops>>
\* part of aggVars
aggEnv == <<keys_size, empty_result_for_aggregation_by_empty_set>>

(***************************************************************************)
(* Helpers on sequences.                                                   *)
(***************************************************************************)
RECURSIVE SeqsUpTo(_, _)
SeqsUpTo(S, n) ==
    IF n = 0 THEN {<<>>}
    ELSE LET shorter == SeqsUpTo(S, n - 1)
         IN shorter \cup {Append(s, x) : s \in {t \in shorter : Len(t) = n - 1}, x \in S}

Count(log, ev) == Cardinality({i \in 1..Len(log) : log[i] = ev})

Positions(log, ev) == {i \in 1..Len(log) : log[i] = ev}

(***************************************************************************)
(* copyData                                                                *)
(***************************************************************************)
BlockInfo == [is_start_frame : BOOLEAN, is_end_frame : BOOLEAN]

NoBlock == [is_start_frame |-> FALSE, is_end_frame |-> FALSE, empty |-> TRUE]

\* isAtomicSet(is_cancelled)
isAtomicSet == flag_given /\ is_cancelled

InitCopy ==
    /\ from_blocks \in SeqsUpTo(BlockInfo, MaxBlocks)
    /\ from_pos = 0
    /\ profiling \in {<<FALSE, FALSE>>, <<TRUE, FALSE>>, <<TRUE, TRUE>>}
    /\ flag_given \in BOOLEAN
    /\ is_cancelled = FALSE
    /\ cp_pc = "read"
    /\ block = NoBlock
    /\ open_frame = FALSE
    /\ no_data = TRUE
    /\ to_log = <<>>

\* while (Block block = from.read()) { no_data = false; ...
CopyRead ==
    /\ cp_pc = "read"
    /\ IF from_pos < Len(from_blocks)
       THEN /\ block' = from_blocks[from_pos + 1]
            /\ from_pos' = from_pos + 1
            /\ no_data' = FALSE
            /\ cp_pc' = "loop_cancel"
       ELSE /\ cp_pc' = "no_data"
            /\ UNCHANGED <<block, from_pos, no_data>>
    /\ UNCHANGED <<from_blocks, profiling, flag_given, is_cancelled, open_frame, to_log>>

\* if (isAtomicSet(is_cancelled)) break;
CopyLoopCancel ==
    /\ cp_pc = "loop_cancel"
    /\ cp_pc' = IF isAtomicSet THEN "no_data" ELSE "emit"
    /\ UNCHANGED <<from_blocks, from_pos, profiling, flag_given, is_cancelled,
                   block, open_frame, no_data, to_log>>

\* a call on the sink; n is the position of the block passed, 0 for a call that
\* takes no block
Call(name, n) == [call |-> name, block |-> n]

\* the loop body as it would be without lines 55-59
EmitCallsNoSuffix(b, open, n) ==
    (IF ~open \/ b.is_start_frame
     THEN <<Call("setSampleBlock", n), Call("writePrefix", 0)>>
     ELSE <<>>)
    \o <<Call("write", n)>>

\* the sink calls of one loop iteration, lines 44-59, for the n-th block
EmitCalls(b, open, n) ==
    (IF ~open \/ b.is_start_frame
     THEN <<Call("setSampleBlock", n), Call("writePrefix", 0)>>
     ELSE <<>>)
    \o <<Call("write", n)>>
    \o (IF b.is_end_frame THEN <<Call("writeSuffix", 0)>> ELSE <<>>)

CopyEmit ==
    /\ cp_pc = "emit"
    /\ to_log' = to_log \o EmitCalls(block, open_frame, from_pos)
    /\ open_frame' = ~block.is_end_frame
    /\ cp_pc' = "read"
    /\ UNCHANGED <<from_blocks, from_pos, profiling, flag_given, is_cancelled, block, no_data>>

\* if (no_data) { to.writePrefix(); open_frame = true; }
CopyNoData ==
    /\ cp_pc = "no_data"
    /\ IF no_data
       THEN /\ to_log' = Append(to_log, Call("writePrefix", 0))
            /\ open_frame' = TRUE
       ELSE UNCHANGED <<to_log, open_frame>>
    /\ cp_pc' = "cancel_before_meta"
    /\ UNCHANGED <<from_blocks, from_pos, profiling, flag_given, is_cancelled, block, no_data>>

\* line 68 as it would be without the test of the flag
CopyNoCancelBeforeMeta ==
    /\ cp_pc = "cancel_before_meta"
    /\ cp_pc' = "meta"
    /\ UNCHANGED <<from_blocks, from_pos, profiling, flag_given, is_cancelled,
                   block, open_frame, no_data, to_log>>

\* if (isAtomicSet(is_cancelled)) return;     (line 68)
CopyCancelBeforeMeta ==
    /\ cp_pc = "cancel_before_meta"
    /\ cp_pc' = IF isAtomicSet THEN "returned" ELSE "meta"
    /\ UNCHANGED <<from_blocks, from_pos, profiling, flag_given, is_cancelled,
                   block, open_frame, no_data, to_log>>

\* the metadata forwarded for a profiling input, lines 72-79
MetaCalls(prof) ==
    IF prof[1]
    THEN (IF prof[2] THEN <<Call("setRowsBeforeLimit", 0)>> ELSE <<>>)
         \o <<Call("setTotals", 0), Call("setExtremes", 0)>>
    ELSE <<>>

CopyMeta ==
    /\ cp_pc = "meta"
    /\ to_log' = to_log \o MetaCalls(profiling)
    /\ cp_pc' = "cancel_before_suffix"
    /\ UNCHANGED <<from_blocks, from_pos, profiling, flag_given, is_cancelled,
                   block, open_frame, no_data>>

\* line 81 as it would be without the test of the flag
CopyNoCancelBeforeSuffix ==
    /\ cp_pc = "cancel_before_suffix"
    /\ cp_pc' = "finish"
    /\ UNCHANGED <<from_blocks, from_pos, profiling, flag_given, is_cancelled,
                   block, open_frame, no_data, to_log>>

\* if (isAtomicSet(is_cancelled)) return;     (line 81)
CopyCancelBeforeSuffix ==
    /\ cp_pc = "cancel_before_suffix"
    /\ cp_pc' = IF isAtomicSet THEN "returned" ELSE "finish"
    /\ UNCHANGED <<from_blocks, from_pos, profiling, flag_given, is_cancelled,
                   block, open_frame, no_data, to_log>>

\* from.readSuffix(); if (open_frame) to.writeSuffix();
CopyFinish ==
    /\ cp_pc = "finish"
    /\ to_log' = IF open_frame THEN Append(to_log, Call("writeSuffix", 0)) ELSE to_log
    /\ cp_pc' = "returned"
    /\ UNCHANGED <<from_blocks, from_pos, profiling, flag_given, is_cancelled,
                   block, open_frame, no_data>>

\* the owner of the flag sets it; nothing in copyData clears it
SetCancelled ==
    /\ flag_given
    /\ ~is_cancelled
    /\ cp_pc # "returned"
    /\ is_cancelled' = TRUE
    /\ UNCHANGED <<from_blocks, from_pos, profiling, flag_given, cp_pc,
                   block, open_frame, no_data, to_log>>

(***************************************************************************)
(* PushingToViewsBlockOutputStream                                         *)
(***************************************************************************)
Sinks == 0..MaxViews

\* the sinks the writer holds: the primary one (0) unless no_destination, and one
\* sub-writer per dependent view
HeldSinks == (IF output THEN {0} ELSE {}) \cup (1..views)

NoCalls == [prefix |-> 0, suffix |-> 0, flush |-> 0, write |-> 0]

TotalCalls == calls.prefix + calls.suffix + calls.flush + calls.write

\* the calls sink s has received, in order
SinkLog(s) ==
    LET mine == SelectSeq(sink_log, LAMBDA e : e[1] = s)
    IN [i \in 1..Len(mine) |-> mine[i][2]]

\* constructor: output is set unless no_destination, one pair per dependent view
InitFan ==
    /\ output \in BOOLEAN
    /\ views \in 0..MaxViews
    /\ sink_log = <<>>
    /\ calls = NoCalls
    /\ last_write = [block |-> 0, thrower |-> 0]

\* the sinks a call of flush / writePrefix / writeSuffix is forwarded to, in order:
\* `if (output) output->...();`
ForwardTargets == IF output THEN <<0>> ELSE <<>>

Forward(ev) == sink_log \o [i \in 1..Len(ForwardTargets) |-> <<ForwardTargets[i], <<ev, 0>>>>]

writePrefix ==
    /\ TotalCalls < MaxOps
    /\ sink_log' = Forward("writePrefix")
    /\ calls' = [calls EXCEPT !.prefix = @ + 1]
    /\ UNCHANGED <<output, views, last_write>>

writeSuffix ==
    /\ TotalCalls < MaxOps
    /\ sink_log' = Forward("writeSuffix")
    /\ calls' = [calls EXCEPT !.suffix = @ + 1]
    /\ UNCHANGED <<output, views, last_write>>

flush ==
    /\ TotalCalls < MaxOps
    /\ sink_log' = Forward("flush")
    /\ calls' = [calls EXCEPT !.flush = @ + 1]
    /\ UNCHANGED <<output, views, last_write>>

\* a fan-out that goes on to the later views after a view sink has thrown
WriteReceiversKeepGoing(thrower) ==
    SelectSeq([i \in 1..(views + 1) |-> i - 1],
              LAMBDA s : (s = 0 => output) /\ s # thrower)

\* write(block) when view sink `thrower` throws (0: no sink throws): the sinks that
\* receive the block, in the order they receive it: the primary sink first, then
\* the views in order up to the one that throws
WriteReceivers(thrower) ==
    SelectSeq([i \in 1..(views + 1) |-> i - 1],
              LAMBDA s : (s = 0 => output) /\ (thrower = 0 \/ s < thrower))

\* write(block): block number b is the b-th block written
write ==
    /\ TotalCalls < MaxOps
    /\ \E thrower \in 0..views :
          LET b == calls.write + 1
              rs == WriteReceivers(thrower)
          IN /\ sink_log' = sink_log \o [i \in 1..Len(rs) |-> <<rs[i], <<"write", b>>>>]
             /\ last_write' = [block |-> b, thrower |-> thrower]
    /\ calls' = [calls EXCEPT !.write = @ + 1]
    /\ UNCHANGED <<output, views>>

(***************************************************************************)
(* StorageMaterializedView: refresh, the periodic task, and readers.       *)
(* The catalog, the interpreters and the schedule pool are collaborators   *)
(* outside the sources; they are modelled by what the view asks of them.   *)
(***************************************************************************)
\* target_table_id.table_name
Inner == "inner"
\* table_to_replace_name = ".tmp" + generateInnerTableName(getStorageID())
Tmp == ".tmp"

TableNames == {Inner, Tmp}
Tables == 1..MaxTables
NoTable == 0

\* periodic_view_refresh, in seconds
Period == 2

\* the threads that can run refresh: the schedule pool's task, and a thread that
\* refreshes on demand
Threads == {"task", "user"}
NotScheduled == -1

\* DatabaseCatalog::getTable(id)->getStorageID(), by name
StorageIdOf(cat, name) == [table_name |-> name, uuid |-> IF with_uuid THEN cat[name] ELSE 0]

\* DatabaseCatalog::getTable / tryGetTable: by UUID when the id has one, else by name
Lookup(id) ==
    IF id.uuid # 0
    THEN IF \E n \in TableNames : catalog[n] = id.uuid THEN id.uuid ELSE NoTable
    ELSE catalog[id.table_name]

\* getTargetTable() / tryGetTargetTable()
getTargetTable == Lookup(target_table_id)

InitMV ==
    /\ catalog = [n \in TableNames |-> IF n = Inner THEN 1 ELSE NoTable]
    /\ table_state = [u \in Tables |-> IF u = 1 THEN "complete" ELSE "unused"]
    /\ next_table = 2
    /\ with_uuid \in BOOLEAN
    /\ target_table_id = [table_name |-> Inner, uuid |-> IF with_uuid THEN 1 ELSE 0]
    /\ mutex = "none"
    /\ rf_pc = [t \in Threads |-> "idle"]
    /\ created = [t \in Threads |-> FALSE]
    /\ replaced = [t \in Threads |-> FALSE]
    /\ rf_tmp = [t \in Threads |-> NoTable]
    /\ rf_result = [t \in Threads |-> "none"]
    /\ last_refresh_time = 0
    /\ mv_now = Period
    /\ is_periodically_refreshed \in BOOLEAN
    /\ task_active = FALSE
    /\ task_scheduled = NotScheduled
    /\ mv_life = "constructed"
    /\ rd_pc = "idle"
    /\ rd_id = [table_name |-> Inner, uuid |-> 0]
    /\ rd_storage = NoTable
    /\ rd_kind = "read"
    /\ rd_lock = NoTable

\* ---- refresh(grab_lock) ----

\* refresh returns to its caller: the on-demand caller's unique_lock is released;
\* the task goes on in scheduleNextPeriodicRefresh when refresh returned normally,
\* and leaves periodicRefreshTaskFunc (releasing the mutex) when it threw
RefreshReturns(t, result) ==
    /\ rf_result' = [rf_result EXCEPT ![t] = result]
    /\ IF t = "task" /\ result = "ok"
       THEN /\ rf_pc' = [rf_pc EXCEPT ![t] = "resched"]
            /\ UNCHANGED mutex
       ELSE /\ rf_pc' = [rf_pc EXCEPT ![t] = "idle"]
            /\ mutex' = "none"

\* an on-demand refresh is requested: refresh(true)
RefreshCall ==
    /\ mv_life = "started"
    /\ rf_pc["user"] = "idle"
    /\ rf_pc' = [rf_pc EXCEPT !["user"] = "lock"]
    /\ UNCHANGED <<catalog, table_state, next_table, with_uuid, target_table_id, mutex,
                   created, replaced, rf_tmp, rf_result, last_refresh_time, mv_now,
                   is_periodically_refreshed, task_active, task_scheduled, mv_life,
                   rd_pc, rd_id, rd_storage,
                   rd_kind, rd_lock>>

\* refresh entered as it would be without waiting for the mutex
RefreshLockNoWait ==
    /\ rf_pc["user"] = "lock"
    /\ mutex' = "user"
    /\ rf_pc' = [rf_pc EXCEPT !["user"] = "create"]
    /\ created' = [created EXCEPT !["user"] = FALSE]
    /\ replaced' = [replaced EXCEPT !["user"] = FALSE]
    /\ UNCHANGED <<catalog, table_state, next_table, with_uuid, target_table_id,
                   rf_tmp, rf_result, last_refresh_time, mv_now,
                   is_periodically_refreshed, task_active, task_scheduled, mv_life,
                   rd_pc, rd_id, rd_storage,
                   rd_kind, rd_lock>>

\* if (grab_lock) lock.lock();  then the locals of refresh, lines 279-283
RefreshLock ==
    /\ rf_pc["user"] = "lock"
    /\ mutex = "none"
    /\ mutex' = "user"
    /\ rf_pc' = [rf_pc EXCEPT !["user"] = "create"]
    /\ created' = [created EXCEPT !["user"] = FALSE]
    /\ replaced' = [replaced EXCEPT !["user"] = FALSE]
    /\ UNCHANGED <<catalog, table_state, next_table, with_uuid, target_table_id,
                   rf_tmp, rf_result, last_refresh_time, mv_now,
                   is_periodically_refreshed, task_active, task_scheduled, mv_life,
                   rd_pc, rd_id, rd_storage,
                   rd_kind, rd_lock>>

\* lines 287-303: the target's CREATE statement, renamed to .tmp<inner>, is executed
RefreshCreate(t) ==
    /\ rf_pc[t] = "create"
    /\ \E ok \in BOOLEAN :
          IF ok /\ catalog[Inner] # NoTable /\ catalog[Tmp] = NoTable /\ next_table <= MaxTables
          THEN /\ catalog' = [catalog EXCEPT ![Tmp] = next_table]
               /\ table_state' = [table_state EXCEPT ![next_table] = "empty"]
               /\ next_table' = next_table + 1
               /\ created' = [created EXCEPT ![t] = TRUE]
               /\ rf_tmp' = [rf_tmp EXCEPT ![t] = next_table]
               /\ rf_pc' = [rf_pc EXCEPT ![t] = "insert"]
          ELSE /\ rf_pc' = [rf_pc EXCEPT ![t] = "catch"]
               /\ UNCHANGED <<catalog, table_state, next_table, created, rf_tmp>>
    /\ UNCHANGED <<with_uuid, target_table_id, mutex, replaced, rf_result,
                   last_refresh_time, mv_now, is_periodically_refreshed, task_active,
                   task_scheduled, mv_life, rd_pc, rd_id, rd_storage,
                   rd_kind, rd_lock>>

\* lines 305-315: INSERT INTO .tmp<inner> <saved SELECT> starts filling the table
RefreshInsert(t) ==
    /\ rf_pc[t] = "insert"
    /\ IF catalog[Tmp] # NoTable
       THEN /\ table_state' = [table_state EXCEPT ![catalog[Tmp]] = "partial"]
            /\ rf_pc' = [rf_pc EXCEPT ![t] = "insert_end"]
       ELSE /\ rf_pc' = [rf_pc EXCEPT ![t] = "catch"]
            /\ UNCHANGED table_state
    /\ UNCHANGED <<catalog, next_table, with_uuid, target_table_id, mutex, created,
                   replaced, rf_tmp, rf_result, last_refresh_time, mv_now,
                   is_periodically_refreshed, task_active, task_scheduled, mv_life,
                   rd_pc, rd_id, rd_storage,
                   rd_kind, rd_lock>>

\* lines 315-316: the insert pipeline finishes, or throws
RefreshInsertEnd(t) ==
    /\ rf_pc[t] = "insert_end"
    /\ \E ok \in BOOLEAN :
          IF ok /\ catalog[Tmp] # NoTable
          THEN /\ table_state' = [table_state EXCEPT ![catalog[Tmp]] = "complete"]
               /\ rf_pc' = [rf_pc EXCEPT ![t] = "rename"]
          ELSE /\ rf_pc' = [rf_pc EXCEPT ![t] = "catch"]
               /\ UNCHANGED table_state
    /\ UNCHANGED <<catalog, next_table, with_uuid, target_table_id, mutex, created,
                   replaced, rf_tmp, rf_result, last_refresh_time, mv_now,
                   is_periodically_refreshed, task_active, task_scheduled, mv_life,
                   rd_pc, rd_id, rd_storage,
                   rd_kind, rd_lock>>

\* ASTRenameQuery::Element; a moved-from element has unspecified (empty) names
RenameElement(from, to) == [from |-> from, to |-> to]
MovedFromElement == RenameElement("", "")

\* lines 318-325: elem is pushed with std::move and then appended a second time;
\* what the second element holds is the moved-from state of elem: left intact, or
\* emptied
RenameElements ==
    LET elem == RenameElement(Tmp, Inner)
    IN {<<elem, second>> : second \in {elem, MovedFromElement}}

\* InterpreterRenameQuery with exchange = true: the elements are applied in order;
\* an element that names a missing table throws, what was applied before stays
RECURSIVE ExecuteRename(_, _)
ExecuteRename(cat, elements) ==
    IF elements = <<>>
    THEN [catalog |-> cat, threw |-> FALSE]
    ELSE LET e == Head(elements)
         IN IF e.from \notin DOMAIN cat \/ e.to \notin DOMAIN cat
            THEN [catalog |-> cat, threw |-> TRUE]
            ELSE IF cat[e.from] = NoTable \/ cat[e.to] = NoTable
            THEN [catalog |-> cat, threw |-> TRUE]
            ELSE ExecuteRename([cat EXCEPT ![e.from] = cat[e.to], ![e.to] = cat[e.from]],
                               Tail(elements))

\* lines 318-329: the rename request is built and executed
RefreshRename(t) ==
    /\ rf_pc[t] = "rename"
    /\ \E ok \in BOOLEAN, elements \in RenameElements :
          LET r == ExecuteRename(catalog, elements)
          IN IF ok
             THEN /\ catalog' = r.catalog
                  /\ rf_pc' = [rf_pc EXCEPT ![t] = IF r.threw THEN "catch" ELSE "set_target"]
             ELSE /\ rf_pc' = [rf_pc EXCEPT ![t] = "catch"]
                  /\ UNCHANGED catalog
    /\ UNCHANGED <<table_state, next_table, target_table_id, mutex, created, replaced,
                   rf_tmp, rf_result, last_refresh_time, mv_now, mvEnv, taskVars, rdVars>>

\* lines 330-331: target_table_id = getTable({database, table_name})->getStorageID()
RefreshSetTarget(t) ==
    /\ rf_pc[t] = "set_target"
    /\ IF catalog[Inner] # NoTable
       THEN /\ target_table_id' = StorageIdOf(catalog, Inner)
            /\ replaced' = [replaced EXCEPT ![t] = TRUE]
            /\ rf_pc' = [rf_pc EXCEPT ![t] = "drop"]
       ELSE /\ rf_pc' = [rf_pc EXCEPT ![t] = "catch"]
            /\ UNCHANGED <<target_table_id, replaced>>
    /\ UNCHANGED <<catalog, table_state, next_table, mutex, created, rf_tmp, rf_result,
                   last_refresh_time, mv_now, mvEnv, taskVars, rdVars>>

\* the table's lock: a shared lock is held on u (lockForShare), so that no
\* exclusive lock on u can be taken
SharedLocked(u) == u # NoTable /\ rd_lock = u

\* DROP TABLE .tmp<inner> goes through: the query did not fail, the table exists
\* and its exclusive lock could be taken
DropSucceeds(ok) == ok /\ catalog[Tmp] # NoTable /\ ~SharedLocked(catalog[Tmp])

\* InterpreterDropQuery(ast_drop, drop_context).execute(): DROP TABLE .tmp<inner>
DropTmp(ok) ==
    IF DropSucceeds(ok)
    THEN /\ table_state' = [table_state EXCEPT ![catalog[Tmp]] = "dropped"]
         /\ catalog' = [catalog EXCEPT ![Tmp] = NoTable]
    ELSE UNCHANGED <<catalog, table_state>>

\* line 333: the table now named .tmp<inner> is dropped
RefreshDrop(t) ==
    /\ rf_pc[t] = "drop"
    /\ \E ok \in BOOLEAN :
          /\ DropTmp(ok)
          /\ rf_pc' = [rf_pc EXCEPT ![t] = IF DropSucceeds(ok) THEN "stamp" ELSE "catch"]
    /\ UNCHANGED <<next_table, target_table_id, mutex, created, replaced, rf_tmp,
                   rf_result, last_refresh_time, mv_now, mvEnv, taskVars, rdVars>>

\* lines 341-343: last_refresh_time = now; refresh returns
RefreshStamp(t) ==
    /\ rf_pc[t] = "stamp"
    /\ last_refresh_time' = mv_now
    /\ RefreshReturns(t, "ok")
    /\ UNCHANGED <<catalog, table_state, next_table, target_table_id, created, replaced,
                   rf_tmp, mv_now, mvEnv, taskVars, rdVars>>

\* the catch block as it would be without the cleanup
RefreshCatchNoDrop(t) ==
    /\ rf_pc[t] = "catch"
    /\ UNCHANGED <<catalog, table_state>>
    /\ RefreshReturns(t, "error")
    /\ UNCHANGED <<next_table, target_table_id, created, replaced, rf_tmp,
                   last_refresh_time, mv_now, mvEnv, taskVars, rdVars>>

\* lines 335-340: catch (...) { if (created && !replaced) DROP .tmp<inner>; throw; }
\* the caught exception is rethrown, unless the DROP throws one of its own
RefreshCatch(t) ==
    /\ rf_pc[t] = "catch"
    /\ IF created[t] /\ ~replaced[t]
       THEN \E ok \in BOOLEAN :
               /\ DropTmp(ok)
               /\ RefreshReturns(t, IF DropSucceeds(ok)
                                    THEN "error" ELSE "drop_error")
       ELSE /\ UNCHANGED <<catalog, table_state>>
            /\ RefreshReturns(t, "error")
    /\ UNCHANGED <<next_table, target_table_id, created, replaced, rf_tmp,
                   last_refresh_time, mv_now, mvEnv, taskVars, rdVars>>

\* ---- the periodic task ----

\* the schedule pool runs the task function: periodicRefreshTaskFunc is entered
TaskFire ==
    /\ task_active
    /\ task_scheduled # NotScheduled
    /\ mv_now >= task_scheduled
    /\ rf_pc["task"] = "idle"
    /\ task_scheduled' = NotScheduled
    /\ rf_pc' = [rf_pc EXCEPT !["task"] = "lock"]
    /\ UNCHANGED <<catalog, table_state, next_table, target_table_id, mutex, created,
                   replaced, rf_tmp, rf_result, last_refresh_time, mv_now, mvEnv,
                   task_active, mv_life, rdVars>>

\* periodicRefreshTaskFunc: std::lock_guard lock(mutex);
TaskLock ==
    /\ rf_pc["task"] = "lock"
    /\ mutex = "none"
    /\ mutex' = "task"
    /\ rf_pc' = [rf_pc EXCEPT !["task"] = "decide"]
    /\ UNCHANGED <<catalog, table_state, next_table, target_table_id, created, replaced,
                   rf_tmp, rf_result, last_refresh_time, mv_now, mvEnv, taskVars, rdVars>>

\* line 350 as it would be with > in the place of >=
RefreshIsDueStrict == (mv_now - Period) > last_refresh_time

\* scheduleNextPeriodicRefresh, line 350
RefreshIsDue == (mv_now - Period) >= last_refresh_time

\* scheduleNextPeriodicRefresh, lines 347-352: refresh(false) when it is due
TaskDecide ==
    /\ rf_pc["task"] = "decide"
    /\ rf_pc' = [rf_pc EXCEPT !["task"] = IF RefreshIsDue THEN "create" ELSE "resched"]
    /\ created' = [created EXCEPT !["task"] = FALSE]
    /\ replaced' = [replaced EXCEPT !["task"] = FALSE]
    /\ UNCHANGED <<catalog, table_state, next_table, target_table_id, mutex, rf_tmp,
                   rf_result, last_refresh_time, mv_now, mvEnv, taskVars, rdVars>>

\* scheduleNextPeriodicRefresh, lines 353-365: the delay given to scheduleAfter
NextDelay ==
    LET next_refresh_time == last_refresh_time + Period
    IN IF mv_now >= next_refresh_time THEN 0 ELSE next_refresh_time - mv_now

\* scheduleAfter(delay), which does nothing on a deactivated task; then
\* periodicRefreshTaskFunc returns and its lock_guard releases the mutex
TaskResched ==
    /\ rf_pc["task"] = "resched"
    /\ task_scheduled' = IF task_active THEN mv_now + NextDelay ELSE task_scheduled
    /\ rf_pc' = [rf_pc EXCEPT !["task"] = "idle"]
    /\ mutex' = "none"
    /\ UNCHANGED <<catalog, table_state, next_table, target_table_id, created, replaced,
                   rf_tmp, rf_result, last_refresh_time, mv_now, mvEnv, task_active,
                   mv_life, rdVars>>

\* startup() as it would be without scheduleAfter(0)
startupNotScheduled ==
    /\ mv_life = "constructed"
    /\ mv_life' = "started"
    /\ IF is_periodically_refreshed
       THEN /\ task_active' = TRUE
            /\ UNCHANGED task_scheduled
       ELSE UNCHANGED <<task_active, task_scheduled>>
    /\ UNCHANGED <<catalog, table_state, next_table, target_table_id, mutex, rf_pc,
                   created, replaced, rf_tmp, rf_result, last_refresh_time, mv_now,
                   mvEnv, rdVars>>

\* startup(): a periodically refreshed view activates its task and schedules it now
startup ==
    /\ mv_life = "constructed"
    /\ mv_life' = "started"
    /\ IF is_periodically_refreshed
       THEN /\ task_active' = TRUE
            /\ task_scheduled' = mv_now
       ELSE UNCHANGED <<task_active, task_scheduled>>
    /\ UNCHANGED <<catalog, table_state, next_table, target_table_id, mutex, rf_pc,
                   created, replaced, rf_tmp, rf_result, last_refresh_time, mv_now,
                   mvEnv, rdVars>>

\* shutdown(): deactivate() waits for a running firing to end, then unschedules
shutdown ==
    /\ mv_life = "started"
    /\ is_periodically_refreshed => rf_pc["task"] = "idle"
    /\ mv_life' = "shutdown"
    /\ IF is_periodically_refreshed
       THEN /\ task_active' = FALSE
            /\ task_scheduled' = NotScheduled
       ELSE UNCHANGED <<task_active, task_scheduled>>
    /\ UNCHANGED <<catalog, table_state, next_table, target_table_id, mutex, rf_pc,
                   created, replaced, rf_tmp, rf_result, last_refresh_time, mv_now,
                   mvEnv, rdVars>>

\* the clock advances
MvTick ==
    /\ mv_now < MaxTime
    /\ mv_now' = mv_now + 1
    /\ UNCHANGED <<catalog, table_state, next_table, target_table_id, mutex, rf_pc,
                   created, replaced, rf_tmp, rf_result, last_refresh_time, mvEnv,
                   taskVars, rdVars>>

\* ---- read and write of the view ----

\* read(), line 183, and write(), line 237: getTargetTable() evaluates
\* target_table_id, without taking `mutex` ...
ReadTargetId ==
    /\ mv_life = "started"
    /\ rd_pc = "idle"
    /\ rd_id' = target_table_id
    /\ rd_pc' = "resolve"
    /\ rd_storage' = NoTable
    /\ rd_kind' \in {"read", "write"}
    /\ UNCHANGED <<catalog, table_state, next_table, target_table_id, mutex, rf_pc,
                   created, replaced, rf_tmp, rf_result, last_refresh_time, mv_now,
                   mvEnv, taskVars, rd_lock>>

\* ... and DatabaseCatalog::getTable resolves it, or throws when there is no such table
ReadResolve ==
    /\ rd_pc = "resolve"
    /\ rd_storage' = Lookup(rd_id)
    /\ rd_pc' = IF Lookup(rd_id) = NoTable THEN "no_table" ELSE "lock"
    /\ UNCHANGED <<catalog, table_state, next_table, target_table_id, mutex, rf_pc,
                   created, replaced, rf_tmp, rf_result, last_refresh_time, mv_now,
                   mvEnv, taskVars, rd_id, rd_kind, rd_lock>>

\* lines 184 and 238: storage->lockForShare(query id, lock_acquire_timeout); it
\* throws for a table that was dropped in the meantime, or on timeout
ReadLock ==
    /\ rd_pc = "lock"
    /\ \E ok \in BOOLEAN :
          IF ok /\ table_state[rd_storage] # "dropped"
          THEN rd_lock' = rd_storage /\ rd_pc' = "locked"
          ELSE rd_lock' = NoTable /\ rd_pc' = "lock_failed"
    /\ UNCHANGED <<catalog, table_state, next_table, target_table_id, mutex, rf_pc,
                   created, replaced, rf_tmp, rf_result, last_refresh_time, mv_now,
                   mvEnv, taskVars, rd_id, rd_storage, rd_kind>>

\* the step below as it would be if an exception did not release the lock
ReadPlanKeepsLock ==
    /\ rd_pc = "locked"
    /\ \E outcome \in {"throws", "no_plan", "plan"} :
          /\ rd_kind = "write" => outcome # "no_plan"
          /\ rd_pc' = IF outcome = "plan" THEN "reading" ELSE "idle"
          /\ UNCHANGED rd_lock
    /\ UNCHANGED <<catalog, table_state, next_table, target_table_id, mutex, rf_pc,
                   created, replaced, rf_tmp, rf_result, last_refresh_time, mv_now,
                   mvEnv, taskVars, rd_id, rd_storage, rd_kind>>

\* read, lines 185-232: storage->read(query_plan, ...) throws, leaves the plan
\* uninitialized, or builds a plan, and then the lock is moved into the plan's last
\* step; write, lines 240-244: storage->write throws, or returns the sink, and
\* then the lock is attached to the sink.  The local `lock` is released when the
\* function is left without having handed it over.
ReadPlan ==
    /\ rd_pc = "locked"
    /\ \E outcome \in {"throws", "no_plan", "plan"} :
          /\ rd_kind = "write" => outcome # "no_plan"
          /\ IF outcome = "plan"
             THEN rd_pc' = "reading" /\ UNCHANGED rd_lock
             ELSE rd_pc' = "idle" /\ rd_lock' = NoTable
    /\ UNCHANGED <<catalog, table_state, next_table, target_table_id, mutex, rf_pc,
                   created, replaced, rf_tmp, rf_result, last_refresh_time, mv_now,
                   mvEnv, taskVars, rd_id, rd_storage, rd_kind>>

\* the pipeline finishes, or the sink is destroyed, and the lock it owns is
\* released; a query that failed before ends too
ReadFinish ==
    /\ rd_pc \in {"reading", "no_table", "lock_failed"}
    /\ rd_pc' = "idle"
    /\ rd_lock' = NoTable
    /\ UNCHANGED <<catalog, table_state, next_table, target_table_id, mutex, rf_pc,
                   created, replaced, rf_tmp, rf_result, last_refresh_time, mv_now,
                   mvEnv, taskVars, rd_id, rd_storage, rd_kind>>

(***************************************************************************)
(* ExternalLoader.  The config repository, the loadables (create, clone,   *)
(* getLifetime, ...) and the clock are the environment.  map_mutex and     *)
(* database_objects_map_mutex are held only inside the steps that say so:  *)
(* each such critical section is one step.  all_mutex is held across steps.*)
(***************************************************************************)
\* names of loadable objects; a file may declare a name of the form 'db.name'
Names == {"d.x"}
\* a name that neither a file nor the catalog ever declares
Undeclared == "z"
\* the paths config_repository->list returns
Paths == {"f1"}
\* identities of loadable objects; Null is the empty shared_ptr
Objects == 1..4
Null == 0
NoEntry == [none |-> TRUE]
NoName == ""

\* the threads of the registry: the reloading thread and a thread calling the API
RegThreads == {"bg", "api"}

\* update_settings offered by the configuration
Settings ==
    {[backoff_initial_sec |-> 1, backoff_max_sec |-> 2]}

\* what getLifetime() and supportUpdates() of the configured objects answer
Profiles ==
    {[lifetime |-> <<1, 1>>, supportUpdates |-> TRUE],
     [lifetime |-> <<0, 0>>, supportUpdates |-> TRUE],
     [lifetime |-> <<0, 1>>, supportUpdates |-> TRUE],
     [lifetime |-> <<2, 1>>, supportUpdates |-> TRUE]}

\* LoadableInfo{loadable, source_type, origin, exception}
LoadableInfo(loadable, source_type, origin, exception) ==
    [loadable |-> loadable, source_type |-> source_type, origin |-> origin,
     exception |-> exception]

\* FailedLoadableInfo{loadable, next_attempt_time, error_count}
FailedLoadableInfo(loadable, next_attempt_time, error_count) ==
    [loadable |-> loadable, next_attempt_time |-> next_attempt_time,
     error_count |-> error_count]

\* what config_files holds for a path the repository does not list: no such file
NoFile == {"no such file"}

\* config_repository->list(config_main, path_setting_name)
ListedPaths == {f \in Paths : config_files[f] # NoFile}

\* a thread that runs no operation
IdleThread ==
    [pc |-> "idle", op |-> "none", throw_on_error |-> FALSE, force_reload |-> FALSE,
     only |-> NoName, config_paths |-> {}, paths |-> {}, path |-> NoName,
     keys |-> {}, name |-> NoName,
     obj |-> Null, exception |-> FALSE, retry |-> {}, recreated |-> {},
     map |-> "none", to_update |-> {}]

\* a loadable whose getCreationException() is set; only failed_loadable_objects
\* keeps such objects, and nothing depends on which one it keeps
FailedObject == 9

\* the threads that hold a new object to put into the map under the name
Holders(map, name) ==
    {t \in RegThreads :
        /\ th[t].name = name
        /\ th[t].obj # Null
        /\ (th[t].map = "databases") = (map = "databases")}

\* a newly constructed object for an entry of the map: one that neither the entry
\* nor a thread about to assign the entry refers to
NewObject(map, name) ==
    LET entry == IF map = "databases"
                 THEN loadable_objects_from_databases[name]
                 ELSE loadable_objects_from_filesystem[name]
        live == (IF entry = NoEntry THEN {} ELSE {entry.loadable})
                \cup {th[t].obj : t \in Holders(map, name)}
    IN CHOOSE o \in Objects :
          /\ o \notin live
          /\ \A p \in Objects : p < o => p \in live

InitReg ==
    /\ loadable_objects_from_filesystem = [n \in Names |-> NoEntry]
    /\ loadable_objects_from_databases = [n \in Names |-> NoEntry]
    /\ failed_loadable_objects = [n \in Names |-> NoEntry]
    /\ update_times = [n \in Names |-> 0]
    /\ last_modification_times = [f \in Paths |-> 0]
    /\ loadable_objects_defined_in_config = [f \in Paths |-> {}]
    /\ is_initialized = FALSE
    /\ reloading_thread = FALSE
    /\ all_mutex = "none"
    /\ update_settings \in Settings
    /\ object_profile \in Profiles
    /\ config_files \in [Paths -> SUBSET Names]
    /\ config_mtime = [f \in Paths |-> 1]
    /\ reg_now = 1
    /\ th = [t \in RegThreads |-> IdleThread]
    /\ crashed = FALSE

\* ExternalLoader::getNextUpdateTime: the times it can return
getNextUpdateTime ==
    LET min_sec == object_profile.lifetime[1]
        max_sec == object_profile.lifetime[2]
    IN IF max_sec < min_sec
       THEN {0}
       ELSE {reg_now + d : d \in min_sec..max_sec}

\* ---- the environment ----

\* a configuration file is rewritten, removed, or written anew
EditConfig ==
    /\ ~crashed
    /\ \E f \in Paths, declared \in (SUBSET Names) \cup {NoFile} :
          /\ config_mtime[f] < MaxMtime
          /\ declared # config_files[f]
          /\ config_files' = [config_files EXCEPT ![f] = declared]
          /\ config_mtime' = [config_mtime EXCEPT ![f] = @ + 1]
    /\ UNCHANGED <<loadable_objects_from_filesystem, loadable_objects_from_databases,
                   failed_loadable_objects, update_times, last_modification_times,
                   loadable_objects_defined_in_config, is_initialized, reloading_thread,
                   all_mutex, update_settings, object_profile, reg_now, th, crashed>>

\* the clock advances
RegTick ==
    /\ ~crashed
    /\ reg_now < MaxRegTime
    /\ reg_now' = reg_now + 1
    /\ UNCHANGED <<loadable_objects_from_filesystem, loadable_objects_from_databases,
                   failed_loadable_objects, update_times, last_modification_times,
                   loadable_objects_defined_in_config, is_initialized, reloading_thread,
                   all_mutex, update_settings, object_profile, config_files,
                   config_mtime, th, crashed>>

\* ---- objects declared by the catalog ----

\* addObjectFromDatabase, under database_objects_map_mutex; throws when the name is
\* already in loadable_objects_from_databases
addObjectFromDatabase ==
    /\ ~crashed
    /\ \E name \in Names, next_update \in getNextUpdateTime :
          IF loadable_objects_from_databases[name] # NoEntry
          THEN UNCHANGED <<loadable_objects_from_databases, update_times>>
          ELSE /\ loadable_objects_from_databases' =
                     [loadable_objects_from_databases EXCEPT
                         ![name] = LoadableInfo(NewObject("databases", name), "DDL", name, FALSE)]
               /\ update_times' = [update_times EXCEPT ![name] = next_update]
    /\ UNCHANGED <<loadable_objects_from_filesystem, failed_loadable_objects,
                   last_modification_times, loadable_objects_defined_in_config,
                   is_initialized, reloading_thread, all_mutex, update_settings,
                   object_profile, config_files, config_mtime, reg_now, th, crashed>>

\* removeObject, under database_objects_map_mutex; throws when the name is missing
removeObject ==
    /\ ~crashed
    /\ \E name \in Names :
          /\ loadable_objects_from_databases[name] # NoEntry
          /\ loadable_objects_from_databases' =
                [loadable_objects_from_databases EXCEPT ![name] = NoEntry]
    /\ UNCHANGED <<loadable_objects_from_filesystem, failed_loadable_objects,
                   update_times, last_modification_times,
                   loadable_objects_defined_in_config, is_initialized, reloading_thread,
                   all_mutex, update_settings, object_profile, config_files,
                   config_mtime, reg_now, th, crashed>>

\* ---- get / tryGet ----

\* getLoadableImpl as it would be if a stored exception alone made it fail
getLoadableImplFailsOnException(name, throw_on_error) ==
    LET it == loadable_objects_from_filesystem[name]
    IN IF it = NoEntry
       THEN [threw |-> throw_on_error, loadable |-> Null]
       ELSE IF it.loadable = Null \/ it.exception
       THEN [threw |-> throw_on_error, loadable |-> Null]
       ELSE [threw |-> FALSE, loadable |-> it.loadable]

\* getLoadableImpl(name, throw_on_error), under map_mutex
getLoadableImpl(name, throw_on_error) ==
    LET it == loadable_objects_from_filesystem[name]
    IN IF it = NoEntry
       THEN [threw |-> throw_on_error, loadable |-> Null]
       ELSE IF it.loadable = Null /\ throw_on_error
       THEN [threw |-> TRUE, loadable |-> Null]
       ELSE [threw |-> FALSE, loadable |-> it.loadable]

\* what a call can come to: it throws, or it returns a loadable or the empty pointer
Throws == [threw |-> TRUE, loadable |-> Null]
Returns(loadable) == [threw |-> FALSE, loadable |-> loadable]

\* getLoadable(name)
getLoadable(name) == getLoadableImpl(name, TRUE)

\* tryGetLoadable(name)
tryGetLoadable(name) == getLoadableImpl(name, FALSE)

\* database_name + '.' + name, for the names of the model
QualifiedName(database_name, name) ==
    IF database_name = "d" /\ name = "x" THEN "d.x" ELSE "other"

\* getLoadableFromDatabasesImpl(name, throw_on_error), under database_objects_map_mutex
getLoadableFromDatabasesImpl(name, throw_on_error) ==
    IF name \notin Names \/ loadable_objects_from_databases[name] = NoEntry
    THEN [threw |-> throw_on_error, loadable |-> Null]
    ELSE IF loadable_objects_from_databases[name].loadable = Null /\ throw_on_error
    THEN [threw |-> TRUE, loadable |-> Null]
    ELSE [threw |-> FALSE, loadable |-> loadable_objects_from_databases[name].loadable]

\* getLoadable(database_name, name)
getLoadableOfDatabase(database_name, name) ==
    IF database_name = "" \/ name = ""
    THEN Returns(Null)
    ELSE getLoadableFromDatabasesImpl(QualifiedName(database_name, name), FALSE)

\* tryGetLoadable(database_name, name)
tryGetLoadableOfDatabase(database_name, name) ==
    IF database_name = "" \/ name = ""
    THEN Returns(Null)
    ELSE getLoadableFromDatabasesImpl(QualifiedName(database_name, name), FALSE)

\* ---- the operations that scan the configuration and update the objects ----

\* the registry variables no scan step assigns
regFixed == <<update_settings, object_profile, config_files, config_mtime, reg_now,
              is_initialized>>

\* thread t goes on with locals r
Continue(t, r) ==
    /\ th' = [th EXCEPT ![t] = r]
    /\ UNCHANGED reloading_thread

\* the operation of thread t returns, or throws to its caller; init starts the
\* reloading thread after reloadAndUpdate has returned
Return(t, threw) ==
    /\ th' = [th EXCEPT ![t] = IdleThread]
    /\ reloading_thread' = (reloading_thread \/ (th[t].op = "init" /\ ~threw))

\* the locals of an operation that starts with reloadFromConfigFiles
Scan(op, throw_on_error, force_reload, only) ==
    [IdleThread EXCEPT !.pc = "files", !.op = op, !.throw_on_error = throw_on_error,
                       !.force_reload = force_reload, !.only = only,
                       !.config_paths = ListedPaths, !.paths = ListedPaths]

\* reloadPeriodically: the reloading thread wakes up and calls reloadAndUpdate()
reloadPeriodically ==
    /\ ~crashed
    /\ reloading_thread
    /\ th["bg"].pc = "idle"
    /\ th' = [th EXCEPT !["bg"] = Scan("reloadAndUpdate", FALSE, FALSE, NoName)]
    /\ UNCHANGED <<loadable_objects_from_filesystem, loadable_objects_from_databases,
                   failed_loadable_objects, update_times, last_modification_times,
                   loadable_objects_defined_in_config, reloading_thread, all_mutex,
                   crashed, regFixed>>

\* init(throw_on_error)
init ==
    /\ ~crashed
    /\ th["api"].pc = "idle"
    /\ ~is_initialized
    /\ is_initialized' = TRUE
    /\ \E throw_on_error \in BOOLEAN :
          th' = [th EXCEPT !["api"] = Scan("init", throw_on_error, FALSE, NoName)]
    /\ UNCHANGED <<loadable_objects_from_filesystem, loadable_objects_from_databases,
                   failed_loadable_objects, update_times, last_modification_times,
                   loadable_objects_defined_in_config, reloading_thread, all_mutex,
                   update_settings, object_profile, config_files, config_mtime, reg_now,
                   crashed>>

\* reload() and reload(name)
reload ==
    /\ ~crashed
    /\ th["api"].pc = "idle"
    /\ \E name \in Names \cup {Undeclared, NoName} :
          th' = [th EXCEPT !["api"] =
                    Scan(IF name = NoName THEN "reload" ELSE "reload_name",
                         TRUE, TRUE, name)]
    /\ UNCHANGED <<loadable_objects_from_filesystem, loadable_objects_from_databases,
                   failed_loadable_objects, update_times, last_modification_times,
                   loadable_objects_defined_in_config, reloading_thread, all_mutex,
                   crashed, regFixed>>

\* reloadFromConfigFile up to the loop over the keys: returns when the file does
\* not exist; takes all_mutex, returns when the file is not newer than last seen,
\* else forgets what the file declared
ConfigFileEnter(t) ==
    /\ ~crashed
    /\ th[t].pc = "files"
    /\ \E config_path \in th[t].paths :
          IF config_files[config_path] = NoFile
          THEN /\ Continue(t, [th[t] EXCEPT !.paths = @ \ {config_path}])
               /\ UNCHANGED <<all_mutex, loadable_objects_defined_in_config,
                              last_modification_times>>
          ELSE /\ all_mutex = "none"
               /\ IF /\ ~th[t].force_reload
                     /\ config_mtime[config_path] <= last_modification_times[config_path]
                  THEN /\ Continue(t, [th[t] EXCEPT !.paths = @ \ {config_path}])
                       /\ UNCHANGED <<all_mutex, loadable_objects_defined_in_config,
                                      last_modification_times>>
                  ELSE /\ all_mutex' = t
                       /\ loadable_objects_defined_in_config' =
                             [loadable_objects_defined_in_config EXCEPT
                                 ![config_path] = {}]
                       /\ last_modification_times' =
                             IF th[t].only = NoName
                             THEN [last_modification_times EXCEPT
                                      ![config_path] = config_mtime[config_path]]
                             ELSE last_modification_times
                       /\ Continue(t, [th[t] EXCEPT !.pc = "keys", !.path = config_path,
                                                    !.keys = config_files[config_path]])
    /\ UNCHANGED <<loadable_objects_from_filesystem, loadable_objects_from_databases,
                   failed_loadable_objects, update_times, crashed, regFixed>>

\* the next key of the file: the name is recorded as declared; a name other than
\* the requested one is skipped; a name some other origin holds is a conflict
ConfigKeyNext(t) ==
    /\ ~crashed
    /\ th[t].pc = "keys"
    /\ \E name \in th[t].keys :
          LET object_it == loadable_objects_from_filesystem[name]
              rest == [th[t] EXCEPT !.keys = @ \ {name}]
          IN /\ loadable_objects_defined_in_config' =
                   [loadable_objects_defined_in_config EXCEPT
                       ![th[t].path] = @ \cup {name}]
             /\ IF th[t].only # NoName /\ name # th[t].only
                THEN Continue(t, rest)
                ELSE IF object_it # NoEntry
                        /\ (object_it.source_type = "DDL"
                            \/ object_it.origin # th[t].path)
                THEN Continue(t, [rest EXCEPT !.pc = "catch", !.name = name])
                ELSE Continue(t, [rest EXCEPT !.pc = "create", !.name = name])
    /\ UNCHANGED <<loadable_objects_from_filesystem, loadable_objects_from_databases,
                   failed_loadable_objects, update_times, last_modification_times,
                   all_mutex, crashed, regFixed>>

\* the keys of the file are exhausted: reloadFromConfigFile returns
ConfigFileLeave(t) ==
    /\ ~crashed
    /\ th[t].pc = "keys"
    /\ th[t].keys = {}
    /\ all_mutex' = "none"
    /\ Continue(t, [th[t] EXCEPT !.pc = "files", !.paths = @ \ {th[t].path},
                                 !.path = NoName])
    /\ UNCHANGED <<loadable_objects_from_filesystem, loadable_objects_from_databases,
                   failed_loadable_objects, update_times, last_modification_times,
                   loadable_objects_defined_in_config, crashed, regFixed>>

\* create(name, config, key), no map lock held: it throws, or returns an object
\* with a creation exception (which goes to failed_loadable_objects), or succeeds
ConfigCreate(t) ==
    /\ ~crashed
    /\ th[t].pc = "create"
    /\ \E outcome \in {"ok", "creation_exception", "throws"} :
          CASE outcome = "throws" ->
                  /\ Continue(t, [th[t] EXCEPT !.pc = "catch"])
                  /\ UNCHANGED <<failed_loadable_objects, update_times>>
            [] outcome = "creation_exception" ->
                  /\ failed_loadable_objects' =
                        [failed_loadable_objects EXCEPT ![th[t].name] =
                            FailedLoadableInfo(FailedObject,
                                reg_now + update_settings.backoff_initial_sec, 0)]
                  /\ Continue(t, [th[t] EXCEPT !.pc = "catch"])
                  /\ UNCHANGED update_times
            [] outcome = "ok" ->
                  /\ IF object_profile.supportUpdates
                     THEN \E next_update \in getNextUpdateTime :
                             update_times' =
                                [update_times EXCEPT ![th[t].name] = next_update]
                     ELSE UNCHANGED update_times
                  /\ Continue(t, [th[t] EXCEPT !.pc = "install", !.obj = NewObject("filesystem", th[t].name)])
                  /\ UNCHANGED failed_loadable_objects
    /\ UNCHANGED <<loadable_objects_from_filesystem, loadable_objects_from_databases,
                   last_modification_times, loadable_objects_defined_in_config,
                   all_mutex, crashed, regFixed>>

\* under map_mutex: add the new object, or replace the loadable of the entry,
\* clear its exception and take the name out of failed_loadable_objects
ConfigInstall(t) ==
    /\ ~crashed
    /\ th[t].pc = "install"
    /\ LET name == th[t].name
       IN IF loadable_objects_from_filesystem[name] = NoEntry
          THEN /\ loadable_objects_from_filesystem' =
                     [loadable_objects_from_filesystem EXCEPT ![name] =
                         LoadableInfo(th[t].obj, "Filesystem", th[t].path, FALSE)]
               /\ UNCHANGED failed_loadable_objects
          ELSE /\ loadable_objects_from_filesystem' =
                     [loadable_objects_from_filesystem EXCEPT ![name] =
                         [@ EXCEPT !.loadable = th[t].obj, !.exception = FALSE]]
               /\ failed_loadable_objects' =
                     [failed_loadable_objects EXCEPT ![name] = NoEntry]
    /\ Continue(t, [th[t] EXCEPT !.pc = "keys", !.name = NoName, !.obj = Null])
    /\ UNCHANGED <<loadable_objects_from_databases, update_times,
                   last_modification_times, loadable_objects_defined_in_config,
                   all_mutex, crashed, regFixed>>

\* catch (...) of the loop over the keys, under map_mutex: an unknown name gets an
\* entry with no loadable, a known one keeps its loadable and gets the exception;
\* with throw_on_error the exception leaves the whole operation
ConfigCatch(t) ==
    /\ ~crashed
    /\ th[t].pc = "catch"
    /\ LET name == th[t].name
       IN loadable_objects_from_filesystem' =
             [loadable_objects_from_filesystem EXCEPT ![name] =
                 IF @ = NoEntry
                 THEN LoadableInfo(Null, "Filesystem", th[t].path, TRUE)
                 ELSE [@ EXCEPT !.exception = TRUE]]
    /\ IF th[t].throw_on_error
       THEN all_mutex' = "none" /\ Return(t, TRUE)
       ELSE /\ Continue(t, [th[t] EXCEPT !.pc = "keys", !.name = NoName])
            /\ UNCHANGED all_mutex
    /\ UNCHANGED <<loadable_objects_from_databases, failed_loadable_objects,
                   update_times, last_modification_times,
                   loadable_objects_defined_in_config, crashed, regFixed>>

\* all paths are done
ConfigFilesDone(t) ==
    /\ ~crashed
    /\ th[t].pc = "files"
    /\ th[t].paths = {}
    /\ Continue(t, [th[t] EXCEPT !.pc = "erase"])
    /\ UNCHANGED <<loadable_objects_from_filesystem, loadable_objects_from_databases,
                   failed_loadable_objects, update_times, last_modification_times,
                   loadable_objects_defined_in_config, all_mutex, crashed, regFixed>>

\* the end of reloadFromConfigFiles, under map_mutex: the entries whose origin no
\* longer declares their name are erased; reload() returns here
EraseRemoved(t) ==
    /\ ~crashed
    /\ th[t].pc = "erase"
    /\ loadable_objects_from_filesystem' =
          [name \in Names |->
              LET loadable == loadable_objects_from_filesystem[name]
              IN IF loadable # NoEntry
                    /\ name \notin loadable_objects_defined_in_config[loadable.origin]
                 THEN NoEntry
                 ELSE loadable]
    /\ CASE th[t].op = "reload" -> Return(t, FALSE)
         [] th[t].op = "reload_name" -> Continue(t, [th[t] EXCEPT !.pc = "check_loaded"])
         [] OTHER -> Continue(t, [th[t] EXCEPT !.pc = "retry_lock"])
    /\ UNCHANGED <<loadable_objects_from_databases, failed_loadable_objects,
                   update_times, last_modification_times,
                   loadable_objects_defined_in_config, all_mutex, crashed, regFixed>>

\* reload(name), under map_mutex: throws unless the name has an entry
CheckLoaded(t) ==
    /\ ~crashed
    /\ th[t].pc = "check_loaded"
    /\ Return(t, \/ th[t].only \notin Names
                  \/ loadable_objects_from_filesystem[th[t].only] = NoEntry)
    /\ UNCHANGED <<loadable_objects_from_filesystem, loadable_objects_from_databases,
                   failed_loadable_objects, update_times, last_modification_times,
                   loadable_objects_defined_in_config, all_mutex, crashed, regFixed>>

\* reloadAndUpdate takes all_mutex and starts the loop over failed_loadable_objects
RetryLock(t) ==
    /\ ~crashed
    /\ th[t].pc = "retry_lock"
    /\ all_mutex = "none"
    /\ all_mutex' = t
    /\ Continue(t, [th[t] EXCEPT !.pc = "retry",
                       !.retry = {n \in Names : failed_loadable_objects[n] # NoEntry},
                       !.recreated = {}])
    /\ UNCHANGED <<loadable_objects_from_filesystem, loadable_objects_from_databases,
                   failed_loadable_objects, update_times, last_modification_times,
                   loadable_objects_defined_in_config, crashed, regFixed>>

\* the next failed object: skipped until its next_attempt_time
RetryNext(t) ==
    /\ ~crashed
    /\ th[t].pc = "retry"
    /\ \E name \in th[t].retry :
          IF reg_now < failed_loadable_objects[name].next_attempt_time
          THEN Continue(t, [th[t] EXCEPT !.retry = @ \ {name}])
          ELSE Continue(t, [th[t] EXCEPT !.retry = @ \ {name}, !.pc = "retry_clone",
                                         !.name = name])
    /\ UNCHANGED <<loadable_objects_from_filesystem, loadable_objects_from_databases,
                   failed_loadable_objects, update_times, last_modification_times,
                   loadable_objects_defined_in_config, all_mutex, crashed, regFixed>>

\* 2^n
RECURSIVE exp2(_)
exp2(n) == IF n = 0 THEN 1 ELSE 2 * exp2(n - 1)

\* std::min
Min(a, b) == IF a < b THEN a ELSE b

\* the delays the retry can draw for an object that failed error_count times
RetryDelays(error_count) ==
    {Min(update_settings.backoff_max_sec, update_settings.backoff_initial_sec + rnd) :
        rnd \in 0..exp2(error_count)}

\* clone() of the failed object: it throws, or the clone has a creation exception
\* (next_attempt_time and error_count are recalculated), or the clone is good;
\* catch (...) logs and, with throw_on_error, leaves reloadAndUpdate
RetryClone(t) ==
    /\ ~crashed
    /\ th[t].pc = "retry_clone"
    /\ \E outcome \in {"ok", "creation_exception", "throws"} :
          LET object_info == failed_loadable_objects[th[t].name]
              Caught == IF th[t].throw_on_error
                        THEN all_mutex' = "none" /\ Return(t, TRUE)
                        ELSE /\ Continue(t, [th[t] EXCEPT !.pc = "retry",
                                                          !.name = NoName])
                             /\ UNCHANGED all_mutex
          IN CASE outcome = "throws" ->
                     Caught /\ UNCHANGED failed_loadable_objects
               [] outcome = "creation_exception" ->
                     /\ \E delay \in RetryDelays(object_info.error_count) :
                           failed_loadable_objects' =
                              [failed_loadable_objects EXCEPT ![th[t].name] =
                                  FailedLoadableInfo(object_info.loadable,
                                      reg_now + delay, object_info.error_count + 1)]
                     /\ Caught
               [] outcome = "ok" ->
                     /\ Continue(t, [th[t] EXCEPT !.pc = "retry_install",
                                                  !.obj = NewObject("filesystem", th[t].name)])
                     /\ UNCHANGED <<failed_loadable_objects, all_mutex>>
    /\ UNCHANGED <<loadable_objects_from_filesystem, loadable_objects_from_databases,
                   update_times, last_modification_times,
                   loadable_objects_defined_in_config, crashed, regFixed>>

\* under map_mutex: the clone replaces the loadable of the entry found by name and
\* the stored exception is cleared.  The iterator is dereferenced unchecked: when
\* the name has no entry the behaviour is undefined -- the process dies, or the
\* write is lost and the loop goes on
RetryInstall(t) ==
    /\ ~crashed
    /\ th[t].pc = "retry_install"
    /\ LET name == th[t].name
           dict_it == loadable_objects_from_filesystem[name]
           goes_on == [th[t] EXCEPT !.pc = "retry", !.name = NoName, !.obj = Null,
                                    !.recreated = @ \cup {name}]
       IN /\ \E next_update \in getNextUpdateTime :
                update_times' = [update_times EXCEPT ![name] = next_update]
          /\ IF dict_it # NoEntry
             THEN /\ loadable_objects_from_filesystem' =
                        [loadable_objects_from_filesystem EXCEPT ![name] =
                            [@ EXCEPT !.loadable = th[t].obj, !.exception = FALSE]]
                  /\ Continue(t, goes_on)
                  /\ UNCHANGED crashed
             ELSE /\ UNCHANGED loadable_objects_from_filesystem
                  /\ \/ crashed' = TRUE /\ UNCHANGED <<th, reloading_thread>>
                     \/ Continue(t, goes_on) /\ UNCHANGED crashed
    /\ UNCHANGED <<loadable_objects_from_databases, failed_loadable_objects,
                   last_modification_times, loadable_objects_defined_in_config,
                   all_mutex, regFixed>>

\* after the loop the recreated names leave failed_loadable_objects; updateAll
RetryDone(t) ==
    /\ ~crashed
    /\ th[t].pc = "retry"
    /\ th[t].retry = {}
    /\ failed_loadable_objects' =
          [name \in Names |-> IF name \in th[t].recreated
                              THEN NoEntry
                              ELSE failed_loadable_objects[name]]
    /\ Continue(t, [th[t] EXCEPT !.pc = "update_collect", !.map = "filesystem",
                                 !.recreated = {}])
    /\ UNCHANGED <<loadable_objects_from_filesystem, loadable_objects_from_databases,
                   update_times, last_modification_times,
                   loadable_objects_defined_in_config, all_mutex, crashed, regFixed>>

\* the map updateObjects works on
ObjectsMap(map) ==
    CASE map = "filesystem" -> loadable_objects_from_filesystem
      [] map = "databases" -> loadable_objects_from_databases

\* checkLoadableObjectToUpdate without the call of isModified()
checkLoadableObjectToUpdate(name, object) ==
    /\ object.loadable # Null
    /\ ~(object_profile.lifetime[1] = 0 \/ object_profile.lifetime[2] = 0)
    /\ object_profile.supportUpdates
    /\ ~(reg_now < update_times[name])

\* updateObjects, under the mutex of the map: collect the objects to update;
\* isModified() is the answer of the object's source
UpdateCollect(t) ==
    /\ ~crashed
    /\ th[t].pc = "update_collect"
    /\ LET loadable_objects == ObjectsMap(th[t].map)
           due == {name \in Names :
                      /\ loadable_objects[name] # NoEntry
                      /\ checkLoadableObjectToUpdate(name, loadable_objects[name])}
       IN \E isModified \in SUBSET due :
             Continue(t, [th[t] EXCEPT !.pc = "update",
                             !.to_update = isModified])
    /\ UNCHANGED <<loadable_objects_from_filesystem, loadable_objects_from_databases,
                   failed_loadable_objects, update_times, last_modification_times,
                   loadable_objects_defined_in_config, all_mutex, crashed, regFixed>>

\* the next object to update: current->clone() runs with no map lock held; a
\* clone that throws or carries a creation exception leaves an exception
UpdateClone(t) ==
    /\ ~crashed
    /\ th[t].pc = "update"
    /\ \E name \in th[t].to_update, cloned \in BOOLEAN :
          Continue(t, [th[t] EXCEPT !.pc = "update_install",
                          !.to_update = @ \ {name}, !.name = name,
                          !.obj = IF cloned THEN NewObject(th[t].map, name) ELSE Null,
                          !.exception = ~cloned])
    /\ UNCHANGED <<loadable_objects_from_filesystem, loadable_objects_from_databases,
                   failed_loadable_objects, update_times, last_modification_times,
                   loadable_objects_defined_in_config, all_mutex, crashed, regFixed>>

\* the step below as it would be if a failed update took the old version away
UpdateInstallDropsOld(t) ==
    /\ ~crashed
    /\ th[t].pc = "update_install"
    /\ LET name == th[t].name
           it == ObjectsMap(th[t].map)[name]
           goes_on == [th[t] EXCEPT !.pc = "update", !.name = NoName, !.obj = Null,
                                    !.exception = FALSE]
           updated == IF th[t].exception
                      THEN [it EXCEPT !.exception = TRUE, !.loadable = Null]
                      ELSE [it EXCEPT !.exception = FALSE, !.loadable = th[t].obj]
       IN IF it = NoEntry
          THEN /\ Continue(t, goes_on)
               /\ UNCHANGED <<loadable_objects_from_filesystem,
                              loadable_objects_from_databases, update_times, all_mutex>>
          ELSE /\ \E next_update \in getNextUpdateTime :
                     update_times' = [update_times EXCEPT ![name] = next_update]
               /\ IF th[t].map = "filesystem"
                  THEN /\ loadable_objects_from_filesystem' =
                             [loadable_objects_from_filesystem EXCEPT ![name] = updated]
                       /\ UNCHANGED loadable_objects_from_databases
                  ELSE /\ loadable_objects_from_databases' =
                             [loadable_objects_from_databases EXCEPT ![name] = updated]
                       /\ UNCHANGED loadable_objects_from_filesystem
               /\ IF th[t].exception /\ th[t].throw_on_error
                  THEN all_mutex' = "none" /\ Return(t, TRUE)
                  ELSE Continue(t, goes_on) /\ UNCHANGED all_mutex
    /\ UNCHANGED <<failed_loadable_objects, last_modification_times,
                   loadable_objects_defined_in_config, crashed, regFixed>>

\* under the mutex of the map: a name that is gone is skipped; else the entry gets
\* the exception of the attempt and, if there is none, the new version
UpdateInstall(t) ==
    /\ ~crashed
    /\ th[t].pc = "update_install"
    /\ LET name == th[t].name
           it == ObjectsMap(th[t].map)[name]
           goes_on == [th[t] EXCEPT !.pc = "update", !.name = NoName, !.obj = Null,
                                    !.exception = FALSE]
           updated == IF th[t].exception
                      THEN [it EXCEPT !.exception = TRUE]
                      ELSE [it EXCEPT !.exception = FALSE, !.loadable = th[t].obj]
       IN IF it = NoEntry
          THEN /\ Continue(t, goes_on)
               /\ UNCHANGED <<loadable_objects_from_filesystem,
                              loadable_objects_from_databases, update_times, all_mutex>>
          ELSE /\ \E next_update \in getNextUpdateTime :
                     update_times' = [update_times EXCEPT ![name] = next_update]
               /\ IF th[t].map = "filesystem"
                  THEN /\ loadable_objects_from_filesystem' =
                             [loadable_objects_from_filesystem EXCEPT ![name] = updated]
                       /\ UNCHANGED loadable_objects_from_databases
                  ELSE /\ loadable_objects_from_databases' =
                             [loadable_objects_from_databases EXCEPT ![name] = updated]
                       /\ UNCHANGED loadable_objects_from_filesystem
               /\ IF th[t].exception /\ th[t].throw_on_error
                  THEN all_mutex' = "none" /\ Return(t, TRUE)
                  ELSE Continue(t, goes_on) /\ UNCHANGED all_mutex
    /\ UNCHANGED <<failed_loadable_objects, last_modification_times,
                   loadable_objects_defined_in_config, crashed, regFixed>>

\* the objects of the map are done: updateAll goes to the objects of the catalog,
\* and after them reloadAndUpdate returns
UpdateDone(t) ==
    /\ ~crashed
    /\ th[t].pc = "update"
    /\ th[t].to_update = {}
    /\ IF th[t].map = "filesystem"
       THEN /\ Continue(t, [th[t] EXCEPT !.pc = "update_collect", !.map = "databases"])
            /\ UNCHANGED all_mutex
       ELSE all_mutex' = "none" /\ Return(t, FALSE)
    /\ UNCHANGED <<loadable_objects_from_filesystem, loadable_objects_from_databases,
                   failed_loadable_objects, update_times, last_modification_times,
                   loadable_objects_defined_in_config, crashed, regFixed>>

(***************************************************************************)
(* StorageAggregatingMemory.  The aggregation is a count of rows per       *)
(* grouping key; a block carries one row, or none.                         *)
(***************************************************************************)
\* values of the grouping key in the rows that are written
AggKeys == {"a", "b"}
\* the one group of an aggregation without keys
NoKey == "none"
\* queries that insert into the table
AggWriters == {"w1", "w2"}

\* a block: "src" is the pre-aggregation shape (src_block_header)
AggBlocks == [shape : {"src", "other"}, key : AggKeys, rows : {1}]

\* src_block_header as a block: the pre-aggregation shape and no rows
EmptySrcBlock == [shape |-> "src", key |-> "a", rows |-> 0]

\* Aggregator::executeOnBlock(block, variants, ...): the block's rows are added to
\* the groups of their keys; without keys there is one group, which a block
\* without rows creates too.  One call is one mutation of the variants.
executeOnBlock(v, b) ==
    LET k == IF keys_size = 0 THEN NoKey ELSE b.key
    IN IF b.rows = 0 /\ keys_size # 0 THEN v
       ELSE IF k \in DOMAIN v THEN [v EXCEPT ![k] = @ + b.rows]
       ELSE v @@ (k :> b.rows)

\* Aggregator::prepareVariantsToMerge and ConvertingAggregatedToChunksTransform:
\* the finalized rows <<key, count>> of the variants
prepareVariantsToMerge(v) == {<<k, v[k]>> : k \in DOMAIN v}

\* lines 240-248: many_data = ManyAggregatedData(1), and an aggregation without
\* keys that must not return an empty result is fed a block with zero rows
FreshVariants ==
    IF keys_size = 0 /\ ~empty_result_for_aggregation_by_empty_set
    THEN executeOnBlock(<<>>, EmptySrcBlock)
    ELSE <<>>

RECURSIVE ExecutedInOrder(_, _)
\* the variants after executeOnBlock of each block of `blocks`, one after the other
ExecutedInOrder(v, blocks) ==
    IF blocks = <<>> THEN v
    ELSE ExecutedInOrder(executeOnBlock(v, Head(blocks)), Tail(blocks))

\* the state after the constructor, lines 140-249
InitAgg ==
    /\ keys_size \in {0, 1}
    /\ empty_result_for_aggregation_by_empty_set \in BOOLEAN
    /\ many_data = FreshVariants
    /\ wr_pc = [w \in AggWriters |-> "idle"]
    /\ wr_block = [w \in AggWriters |-> EmptySrcBlock]
    /\ wr_result = [w \in AggWriters |-> "none"]
    /\ executed = <<>>
    /\ agg_last = "none"
    /\ read_result = {}
    /\ agg_life = "live"

\* lines 282-286 and the caller's write(block): a sink over the shared variants
\* (variants is a reference to many_data->variants[0]) is given a block
AggWrite(w) ==
    /\ agg_life = "live"
    /\ wr_pc[w] = "idle"
    /\ Len(executed) + Cardinality({x \in AggWriters : wr_pc[x] # "idle"}) < MaxAggWrites
    /\ \E b \in AggBlocks :
          wr_block' = [wr_block EXCEPT ![w] = b]
    /\ wr_pc' = [wr_pc EXCEPT ![w] = "check"]
    /\ wr_result' = [wr_result EXCEPT ![w] = "none"]
    /\ UNCHANGED <<many_data, executed, agg_last, read_result, agg_life, aggEnv>>

\* the shape check as it would be if it let every block through
AggCheckLetsThrough(w) ==
    /\ wr_pc[w] = "check"
    /\ wr_pc' = [wr_pc EXCEPT ![w] = "execute"]
    /\ UNCHANGED <<wr_result, wr_block, many_data, executed, agg_last, read_result,
                   agg_life, aggEnv>>

\* line 72: storage.src_metadata_snapshot->check(block, true) throws for a block
\* that does not have the pre-aggregation shape
AggCheck(w) ==
    /\ wr_pc[w] = "check"
    /\ IF wr_block[w].shape = "src"
       THEN /\ wr_pc' = [wr_pc EXCEPT ![w] = "execute"]
            /\ UNCHANGED wr_result
       ELSE /\ wr_pc' = [wr_pc EXCEPT ![w] = "idle"]
            /\ wr_result' = [wr_result EXCEPT ![w] = "threw"]
    /\ UNCHANGED <<wr_block, many_data, executed, agg_last, read_result, agg_life,
                   aggEnv>>

\* the step below as it would be if a writer's block were dropped whenever
\* another writer is inside write
AggExecuteLosesBlock(w) ==
    /\ wr_pc[w] = "execute"
    /\ many_data' = IF \E x \in AggWriters \ {w} : wr_pc[x] # "idle"
                    THEN many_data
                    ELSE executeOnBlock(many_data, wr_block[w])
    /\ executed' = Append(executed, wr_block[w])
    /\ wr_pc' = [wr_pc EXCEPT ![w] = "idle"]
    /\ wr_result' = [wr_result EXCEPT ![w] = "ok"]
    /\ agg_last' = "write"
    /\ UNCHANGED <<wr_block, read_result, agg_life, aggEnv>>

\* lines 74-79: before_aggregation runs on a copy of the block, and
\* aggregator.executeOnBlock feeds it to the shared variants
AggExecute(w) ==
    /\ wr_pc[w] = "execute"
    /\ many_data' = executeOnBlock(many_data, wr_block[w])
    /\ executed' = Append(executed, wr_block[w])
    /\ wr_pc' = [wr_pc EXCEPT ![w] = "idle"]
    /\ wr_result' = [wr_result EXCEPT ![w] = "ok"]
    /\ agg_last' = "write"
    /\ UNCHANGED <<wr_block, read_result, agg_life, aggEnv>>

\* read, lines 252-280: the variants are merged into finalized chunks
AggRead ==
    /\ agg_life = "live"
    /\ read_result' = prepareVariantsToMerge(many_data)
    /\ agg_last' = "read"
    /\ UNCHANGED <<many_data, wr_pc, wr_block, wr_result, executed, agg_life, aggEnv>>

\* truncate, lines 293-296, called with the table's exclusive lock: the body is
\* a comment
AggTruncate ==
    /\ agg_life = "live"
    /\ \A w \in AggWriters : wr_pc[w] = "idle"
    /\ agg_last' = "truncate"
    /\ UNCHANGED <<many_data, wr_pc, wr_block, wr_result, executed, read_result,
                   agg_life, aggEnv>>

\* drop, lines 288-291: the body is a comment; the table is gone from the catalog
AggDrop ==
    /\ agg_life = "live"
    /\ \A w \in AggWriters : wr_pc[w] = "idle"
    /\ agg_life' = "dropped"
    /\ agg_last' = "drop"
    /\ UNCHANGED <<many_data, wr_pc, wr_block, wr_result, executed, read_result,
                   aggEnv>>

(***************************************************************************)
(* StorageMaterializedView: constructor, drop and truncate.  The view is    *)
(* db.mv; its inner table would be db..inner.mv.                            *)
(***************************************************************************)
\* UUIDHelpers::Nil
Nil == 0
\* the UUIDs a CREATE query can carry
Uuids == {Nil, 1, 2}

TableId(database_name, table_name) ==
    [database_name |-> database_name, table_name |-> table_name]

\* StorageID::empty()
EmptyId == TableId("", "")
\* getStorageID() of the view, without its UUID
ViewId == TableId("db", "mv")
\* {getStorageID().database_name, generateInnerTableName(getStorageID())}
InnerId == TableId("db", ".inner.mv")
\* the tables a view can be told to write to, the view itself among them
ToTableIds == {ViewId, TableId("db", "dst"), TableId("db2", "mv")}
\* the tables of the catalog that can hold the view's data
TargetIds == (ToTableIds \ {ViewId}) \cup {InnerId}
\* the edge select_table_id -> view of DatabaseCatalog's dependencies
ViewDependency == <<TableId("db", "src"), ViewId>>

\* the CREATE / ATTACH queries and the table_id_ the constructor is called with:
\* select is the number of SELECTs (0: no select, 2: a UNION)
CreateQueries ==
    [select : {0, 1, 2}, to_table_id : {EmptyId} \cup ToTableIds, storage : BOOLEAN,
     to_inner_uuid : Uuids, uuid : {Nil, 1}, attach_ : BOOLEAN,
     select_table_id_empty : BOOLEAN]

\* lines 98-99
point_to_itself_by_uuid ==
    /\ query.to_table_id = EmptyId
    /\ query.to_inner_uuid # Nil
    /\ query.to_inner_uuid = query.uuid

\* lines 100-101
point_to_itself_by_name ==
    /\ query.to_table_id # EmptyId
    /\ query.to_table_id.database_name = ViewId.database_name
    /\ query.to_table_id.table_name = ViewId.table_name

\* the catalog before the constructor runs: no view, no dependency; the inner
\* table of an earlier life of the view may exist
InitLife ==
    /\ query \in CreateQueries
    /\ db_tables \in [TargetIds -> {"absent", "filled"}]
    /\ \A id \in TargetIds \ {InnerId} : db_tables[id] = "filled"
    /\ dependencies = {}
    /\ has_inner_table = FALSE
    /\ view_target = EmptyId
    /\ inner_created = FALSE
    /\ lf_pc = "checks"
    /\ lf_last = "none"
    /\ lf_ops = 0

\* lines 81-93: no SELECT, neither ENGINE nor TO, or a UNION: throw
CtorChecks ==
    /\ lf_pc = "checks"
    /\ IF query.select = 0
       THEN lf_pc' = "threw" /\ UNCHANGED has_inner_table
       ELSE /\ has_inner_table' = (query.to_table_id = EmptyId)
            /\ lf_pc' = IF \/ (query.to_table_id = EmptyId /\ ~query.storage)
                           \/ query.select # 1
                        THEN "threw" ELSE "self_check"
    /\ UNCHANGED <<query, db_tables, dependencies, view_target, inner_created,
                   lf_last, lf_ops>>

\* the check below as it would be without the comparison of names and UUIDs
CtorSelfCheckSkipped ==
    /\ lf_pc = "self_check"
    /\ lf_pc' = "target"
    /\ UNCHANGED <<query, db_tables, dependencies, has_inner_table, view_target,
                   inner_created, lf_last, lf_ops>>

\* lines 98-103: a view that points to itself: throw BAD_ARGUMENTS
CtorSelfCheck ==
    /\ lf_pc = "self_check"
    /\ lf_pc' = IF point_to_itself_by_uuid \/ point_to_itself_by_name
                THEN "threw" ELSE "target"
    /\ UNCHANGED <<query, db_tables, dependencies, has_inner_table, view_target,
                   inner_created, lf_last, lf_ops>>

\* lines 105-134: target_table_id is the TO table, the inner table that ATTACH
\* expects to exist, or the inner table that is created now; the CREATE throws
\* when the table exists already, or for a reason of its own
CtorTarget ==
    /\ lf_pc = "target"
    /\ IF ~has_inner_table
       THEN /\ view_target' = query.to_table_id
            /\ lf_pc' = "dependency"
            /\ UNCHANGED <<db_tables, inner_created>>
       ELSE IF query.attach_
       THEN /\ view_target' = InnerId
            /\ lf_pc' = "dependency"
            /\ UNCHANGED <<db_tables, inner_created>>
       ELSE \E ok \in BOOLEAN :
               IF ok /\ db_tables[InnerId] = "absent"
               THEN /\ db_tables' = [db_tables EXCEPT ![InnerId] = "empty"]
                    /\ inner_created' = TRUE
                    /\ view_target' = InnerId
                    /\ lf_pc' = "dependency"
               ELSE /\ lf_pc' = "threw"
                    /\ UNCHANGED <<db_tables, inner_created, view_target>>
    /\ UNCHANGED <<query, dependencies, has_inner_table, lf_last, lf_ops>>

\* lines 136-145: addDependency(select_table_id, getStorageID()); the periodic
\* task is created and deactivated
CtorDependency ==
    /\ lf_pc = "dependency"
    /\ dependencies' = IF query.select_table_id_empty
                       THEN dependencies
                       ELSE dependencies \cup {ViewDependency}
    /\ lf_pc' = "constructed"
    /\ UNCHANGED <<query, db_tables, has_inner_table, view_target, inner_created,
                   lf_last, lf_ops>>

\* rows reach the target table
LifeInsert ==
    /\ lf_pc = "constructed"
    /\ lf_ops < MaxLifeOps
    /\ view_target \in TargetIds
    /\ db_tables[view_target] = "empty"
    /\ db_tables' = [db_tables EXCEPT ![view_target] = "filled"]
    /\ lf_last' = "insert"
    /\ lf_ops' = lf_ops + 1
    /\ UNCHANGED <<query, dependencies, has_inner_table, view_target, inner_created,
                   lf_pc>>

\* DROP TABLE of the inner table by a user, behind the view's back
LifeInnerDropped ==
    /\ lf_pc = "constructed"
    /\ lf_ops < MaxLifeOps
    /\ db_tables[InnerId] # "absent"
    /\ db_tables' = [db_tables EXCEPT ![InnerId] = "absent"]
    /\ lf_last' = "inner_dropped"
    /\ lf_ops' = lf_ops + 1
    /\ UNCHANGED <<query, dependencies, has_inner_table, view_target, inner_created,
                   lf_pc>>

\* drop as it would be if it dropped whatever table target_table_id names
dropAnyTarget ==
    /\ lf_pc = "constructed"
    /\ lf_ops < MaxLifeOps
    /\ dependencies' = dependencies \ {ViewDependency}
    /\ db_tables' = [db_tables EXCEPT ![view_target] = "absent"]
    /\ lf_pc' = "dropped"
    /\ lf_last' = "drop"
    /\ lf_ops' = lf_ops + 1
    /\ UNCHANGED <<query, has_inner_table, view_target, inner_created>>

\* drop, lines 248-256, and dropInnerTableIfAny, lines 258-262: the dependency
\* is removed, and the target is dropped if it is an inner table that
\* tryGetTargetTable() finds; the DROP query may throw
drop ==
    /\ lf_pc = "constructed"
    /\ lf_ops < MaxLifeOps
    /\ dependencies' = IF query.select_table_id_empty
                       THEN dependencies
                       ELSE dependencies \ {ViewDependency}
    /\ IF has_inner_table /\ db_tables[view_target] # "absent"
       THEN \E ok \in BOOLEAN :
               IF ok
               THEN /\ db_tables' = [db_tables EXCEPT ![view_target] = "absent"]
                    /\ lf_pc' = "dropped"
                    /\ lf_last' = "drop"
               ELSE /\ UNCHANGED <<db_tables, lf_pc>>
                    /\ lf_last' = "drop_threw"
       ELSE /\ UNCHANGED db_tables
            /\ lf_pc' = "dropped"
            /\ lf_last' = "drop"
    /\ lf_ops' = lf_ops + 1
    /\ UNCHANGED <<query, has_inner_table, view_target, inner_created>>

\* truncate, lines 264-268: TRUNCATE of the target if it is an inner table; the
\* query throws when there is no such table, or for a reason of its own
truncate ==
    /\ lf_pc = "constructed"
    /\ lf_ops < MaxLifeOps
    /\ IF has_inner_table
       THEN \E ok \in BOOLEAN :
               IF ok /\ db_tables[view_target] # "absent"
               THEN /\ db_tables' = [db_tables EXCEPT ![view_target] = "empty"]
                    /\ lf_last' = "truncate"
               ELSE /\ UNCHANGED db_tables
                    /\ lf_last' = "truncate_threw"
       ELSE /\ UNCHANGED db_tables
            /\ lf_last' = "truncate"
    /\ lf_ops' = lf_ops + 1
    /\ UNCHANGED <<query, dependencies, has_inner_table, view_target, inner_created,
                   lf_pc>>

(***************************************************************************)
(* Specifications                                                          *)
(***************************************************************************)
\* ---- ExternalLoader: the mutexes alone ----
\* Every operation of the registry as the lock() and unlock() calls it makes, in
\* the order the code makes them; what the operations do to the maps is above.

Mutexes == {"all_mutex", "map_mutex", "database_objects_map_mutex"}
\* the reloading thread and two threads that call the registry
LockThreads == {"bg", "api", "ddl"}
LoopCounts == 0..MaxLockLoop

Lock(m) == <<[call |-> "lock", mutex |-> m]>>
Unlock(m) == <<[call |-> "unlock", mutex |-> m]>>
\* a std::lock_guard on m around code that takes no mutex
Guarded(m) == Lock(m) \o Unlock(m)

RECURSIVE Times(_, _)
Times(prog, n) == IF n = 0 THEN <<>> ELSE prog \o Times(prog, n - 1)

\* reloadFromConfigFile: a missing file returns before any lock; else all_mutex
\* is held to the end, and each key that is loaded takes map_mutex for the
\* conflict check, and again for the install or in the catch block
reloadFromConfigFileLocks(exists, keys) ==
    IF ~exists
    THEN <<>>
    ELSE Lock("all_mutex")
            \o Times(Guarded("map_mutex") \o Guarded("map_mutex"), keys)
            \o Unlock("all_mutex")

\* reloadFromConfigFiles: the files one after the other, then the erase phase under
\* map_mutex, which a rethrown exception skips
reloadFromConfigFilesLocks(files, keys, threw) ==
    Times(reloadFromConfigFileLocks(TRUE, keys), files)
        \o (IF threw THEN <<>> ELSE Guarded("map_mutex"))

\* updateObjects: the collection under the mutex of the map, then one install
\* under it for each collected object
updateObjectsLocks(m, objects) == Guarded(m) \o Times(Guarded(m), objects)

\* updateAll
updateAllLocks(fs_objects, db_objects) ==
    updateObjectsLocks("map_mutex", fs_objects)
        \o updateObjectsLocks("database_objects_map_mutex", db_objects)

\* reloadAndUpdate as it would be if it took all_mutex before the scan
reloadAndUpdateLocksAroundScan(scan, retries, update) ==
    Lock("all_mutex") \o scan \o Times(Guarded("map_mutex"), retries) \o update
        \o Unlock("all_mutex")

\* reloadAndUpdate: the scan, then all_mutex around the retries, each good
\* one installing under map_mutex, and updateAll
reloadAndUpdateLocks(scan, retries, update) ==
    scan \o Lock("all_mutex") \o Times(Guarded("map_mutex"), retries) \o update
        \o Unlock("all_mutex")

\* the scans of the model: no file or existing files, each with its keys
ScanLocks(threw) ==
    {reloadFromConfigFilesLocks(files, keys, threw) :
        files \in LoopCounts, keys \in LoopCounts}

\* the lock programs an operation can run
LockPrograms(op) ==
    CASE op = "reloadPeriodically" ->
            {reloadAndUpdateLocks(scan, retries, updateAllLocks(fs_objects, db_objects)) :
                scan \in ScanLocks(FALSE), retries \in LoopCounts,
                fs_objects \in LoopCounts, db_objects \in LoopCounts}
      [] op = "reload" -> ScanLocks(FALSE) \cup ScanLocks(TRUE)
      [] op = "reloadName" ->
            {scan \o Guarded("map_mutex") : scan \in ScanLocks(FALSE)} \cup ScanLocks(TRUE)
      [] op \in {"getLoadable", "tryGetLoadable"} -> {Guarded("map_mutex")}
      [] op \in {"getLoadableOfDatabase", "tryGetLoadableOfDatabase"} ->
            {<<>>, Guarded("database_objects_map_mutex")}
      [] op \in {"addObjectFromDatabase", "removeObject"} ->
            {Guarded("database_objects_map_mutex")}

\* the operations a thread of the model calls
LockOps(t) ==
    CASE t = "bg" -> {"reloadPeriodically"}
      [] t = "api" -> {"reload", "reloadName", "getLoadable", "tryGetLoadable"}
      [] t = "ddl" -> {"addObjectFromDatabase", "removeObject", "getLoadableOfDatabase",
                       "tryGetLoadableOfDatabase", "getLoadable"}

IdleLock ==
    /\ lock_owner = [m \in Mutexes |-> "none"]
    /\ lock_op = [t \in LockThreads |-> "idle"]
    /\ lock_prog = [t \in LockThreads |-> <<>>]

InitLock == IdleLock

\* a thread enters an operation
LockStart(t) ==
    /\ lock_op[t] = "idle"
    /\ \E op \in LockOps(t) :
         \E prog \in LockPrograms(op) :
            /\ lock_op' = [lock_op EXCEPT ![t] = op]
            /\ lock_prog' = [lock_prog EXCEPT ![t] = prog]
    /\ UNCHANGED lock_owner

\* std::mutex::lock: the thread goes on when nobody holds the mutex, itself included
LockAcquire(t) ==
    /\ lock_op[t] # "idle"
    /\ lock_prog[t] # <<>>
    /\ Head(lock_prog[t]).call = "lock"
    /\ lock_owner[Head(lock_prog[t]).mutex] = "none"
    /\ lock_owner' = [lock_owner EXCEPT ![Head(lock_prog[t]).mutex] = t]
    /\ lock_prog' = [lock_prog EXCEPT ![t] = Tail(lock_prog[t])]
    /\ UNCHANGED lock_op

\* the end of the scope of a lock_guard
LockRelease(t) ==
    /\ lock_op[t] # "idle"
    /\ lock_prog[t] # <<>>
    /\ Head(lock_prog[t]).call = "unlock"
    /\ lock_owner' = [lock_owner EXCEPT ![Head(lock_prog[t]).mutex] = "none"]
    /\ lock_prog' = [lock_prog EXCEPT ![t] = Tail(lock_prog[t])]
    /\ UNCHANGED lock_op

\* the operation returns, or throws, to its caller
LockReturn(t) ==
    /\ lock_op[t] # "idle"
    /\ lock_prog[t] = <<>>
    /\ lock_op' = [lock_op EXCEPT ![t] = "idle"]
    /\ UNCHANGED <<lock_owner, lock_prog>>

\* ---- DictionaryStructure: the constructor ----
\* The constructor reads the configuration piece by piece; config holds what it
\* has read. An element of the configuration is absent (has = FALSE) or a record
\* of its name and expression; the children of `key` and of the structure are
\* given by their kind. The null_value of an attribute is not modelled.

ElemKinds == {"other", "attribute", "unnamed", "hierarchical"}
ElemSeqs == UNION {[1..n -> ElemKinds] : n \in 0..MaxElems}
AbsentElem == [has |-> FALSE, name |-> "", expression |-> ""]
IdElems == [has : {TRUE}, name : {"", "id"}, expression : {"", "e"}]
AbsentKey == [has |-> FALSE, elems |-> <<>>]
KeyElems == [has : {TRUE}, elems : ElemSeqs]
AbsentRange == [has |-> FALSE, name |-> "", expression |-> "", type |-> ""]
RangeElems == [has : {TRUE}, name : {"", "r"}, expression : {"", "e"},
               type : {"Date", "String"}]

\* std::optional without a value
NoId == [has_value |-> FALSE, name |-> "", expression |-> ""]
NoKeyAttributes == [has_value |-> FALSE, attributes |-> <<>>]
NoRange == [has_value |-> FALSE, name |-> "", expression |-> "", type |-> ""]

\* the loop of getAttributes over the elements that are left
RECURSIVE getAttributesFrom(_, _, _, _)
getAttributesFrom(config_elems, hierarchy_allowed, has_hierarchy, res_attributes) ==
    IF config_elems = <<>>
    THEN [threw |-> FALSE, attributes |-> res_attributes]
    ELSE LET config_elem == Head(config_elems)
             hierarchical == config_elem = "hierarchical"
         IN IF config_elem = "other"
            THEN getAttributesFrom(Tail(config_elems), hierarchy_allowed, has_hierarchy,
                                   res_attributes)
            ELSE IF config_elem = "unnamed"
            THEN [threw |-> TRUE, attributes |-> <<>>]
            ELSE IF has_hierarchy /\ ~hierarchy_allowed
            THEN [threw |-> TRUE, attributes |-> <<>>]
            ELSE IF has_hierarchy /\ hierarchical
            THEN [threw |-> TRUE, attributes |-> <<>>]
            ELSE getAttributesFrom(Tail(config_elems), hierarchy_allowed,
                                   has_hierarchy \/ hierarchical,
                                   Append(res_attributes, config_elem))

\* getAttributes(config, config_prefix, hierarchy_allowed, allow_null_values)
getAttributes(config_elems, hierarchy_allowed) ==
    getAttributesFrom(config_elems, hierarchy_allowed, FALSE, <<>>)

\* the constructors of the special attributes throw on an expression without a name
SpecialAttributeThrows(elem) == elem.name = "" /\ elem.expression # ""

\* isValueRepresentedByInteger() of the types of the model
isValueRepresentedByInteger(type) == type = "Date"

IdleDict ==
    /\ config = [id |-> AbsentElem, key |-> AbsentKey, range_min |-> AbsentRange,
                 range_max |-> AbsentRange, attributes |-> <<>>]
    /\ structure = [id |-> NoId, key |-> NoKeyAttributes, range_min |-> NoRange,
                    range_max |-> NoRange, attributes |-> <<>>,
                    has_expressions |-> FALSE]
    /\ ds_pc = "start"

InitDict == IdleDict

\* the step below as it would be without the test for both `id` and `key`
DictIdOrKeyAcceptsBoth ==
    /\ ds_pc = "start"
    /\ \E id \in {AbsentElem} \cup IdElems, key \in {AbsentKey} \cup KeyElems :
         LET has_id == id.has
             has_key == key.has
             attrs == getAttributes(key.elems, FALSE)
         IN /\ config' = [config EXCEPT !.id = id, !.key = key]
            /\ IF has_id
               THEN IF SpecialAttributeThrows(id)
                    THEN ds_pc' = "threw" /\ UNCHANGED structure
                    ELSE /\ structure' = [structure EXCEPT !.id =
                               [has_value |-> TRUE, name |-> id.name,
                                expression |-> id.expression]]
                         /\ ds_pc' = "range"
               ELSE IF has_key
               THEN IF attrs.threw \/ attrs.attributes = <<>>
                    THEN ds_pc' = "threw" /\ UNCHANGED structure
                    ELSE /\ structure' = [structure EXCEPT !.key =
                               [has_value |-> TRUE, attributes |-> attrs.attributes]]
                         /\ ds_pc' = "range"
               ELSE ds_pc' = "threw" /\ UNCHANGED structure

\* has_id, has_key and the emplace of the one that is there
DictIdOrKey ==
    /\ ds_pc = "start"
    /\ \E id \in {AbsentElem} \cup IdElems, key \in {AbsentKey} \cup KeyElems :
         LET has_id == id.has
             has_key == key.has
             attrs == getAttributes(key.elems, FALSE)
         IN /\ config' = [config EXCEPT !.id = id, !.key = key]
            /\ IF has_key /\ has_id
               THEN ds_pc' = "threw" /\ UNCHANGED structure
               ELSE IF has_id
               THEN IF SpecialAttributeThrows(id)
                    THEN ds_pc' = "threw" /\ UNCHANGED structure
                    ELSE /\ structure' = [structure EXCEPT !.id =
                               [has_value |-> TRUE, name |-> id.name,
                                expression |-> id.expression]]
                         /\ ds_pc' = "range"
               ELSE IF has_key
               THEN IF attrs.threw \/ attrs.attributes = <<>>
                    THEN ds_pc' = "threw" /\ UNCHANGED structure
                    ELSE /\ structure' = [structure EXCEPT !.key =
                               [has_value |-> TRUE, attributes |-> attrs.attributes]]
                         /\ ds_pc' = "range"
               ELSE ds_pc' = "threw" /\ UNCHANGED structure

\* what `if (id)` guards: the name of the id, range_min and range_max
DictRange ==
    /\ ds_pc = "range"
    /\ IF ~structure.id.has_value
       THEN ds_pc' = "attributes" /\ UNCHANGED <<config, structure>>
       ELSE IF structure.id.name = ""
       THEN ds_pc' = "threw" /\ UNCHANGED <<config, structure>>
       ELSE \E min \in {AbsentRange} \cup RangeElems, max \in {AbsentRange} \cup RangeElems :
              /\ config' = [config EXCEPT !.range_min = min, !.range_max = max]
              /\ IF \/ min.has /\ SpecialAttributeThrows(min)
                    \/ max.has /\ SpecialAttributeThrows(max)
                    \/ min.has # max.has
                    \/ min.has /\ max.has /\ min.type # max.type
                    \/ min.has /\ ~isValueRepresentedByInteger(min.type)
                 THEN ds_pc' = "threw" /\ UNCHANGED structure
                 ELSE /\ structure' =
                           [structure EXCEPT
                              !.range_min = [has_value |-> min.has, name |-> min.name,
                                             expression |-> min.expression,
                                             type |-> min.type],
                              !.range_max = [has_value |-> max.has, name |-> max.name,
                                             expression |-> max.expression,
                                             type |-> max.type],
                              !.has_expressions =
                                  \/ structure.id.expression # ""
                                  \/ min.has /\ min.expression # ""
                                  \/ max.has /\ max.expression # ""]
                      /\ ds_pc' = "attributes"

\* attributes = getAttributes(config, config_prefix), which must not come out empty
DictAttributes ==
    /\ ds_pc = "attributes"
    /\ \E elems \in ElemSeqs :
         LET attrs == getAttributes(elems, TRUE)
         IN /\ config' = [config EXCEPT !.attributes = elems]
            /\ IF attrs.threw \/ attrs.attributes = <<>>
               THEN ds_pc' = "threw" /\ UNCHANGED structure
               ELSE /\ structure' = [structure EXCEPT !.attributes = attrs.attributes]
                    /\ ds_pc' = "constructed"

vars == <<copyVars, fanVars, mvVars, regVars, aggVars, lifeVars, lockVars, dictVars>>

IdleCopy ==
    /\ from_blocks = <<>>
    /\ from_pos = 0
    /\ profiling = <<FALSE, FALSE>>
    /\ flag_given = FALSE
    /\ is_cancelled = FALSE
    /\ cp_pc = "returned"
    /\ block = NoBlock
    /\ open_frame = FALSE
    /\ no_data = TRUE
    /\ to_log = <<>>

IdleFan ==
    /\ output = FALSE
    /\ views = 0
    /\ sink_log = <<>>
    /\ calls = NoCalls
    /\ last_write = [block |-> 0, thrower |-> 0]

IdleMV ==
    /\ catalog = [n \in TableNames |-> NoTable]
    /\ table_state = [u \in Tables |-> "unused"]
    /\ next_table = 1
    /\ with_uuid = FALSE
    /\ target_table_id = [table_name |-> Inner, uuid |-> 0]
    /\ mutex = "none"
    /\ rf_pc = [t \in Threads |-> "idle"]
    /\ created = [t \in Threads |-> FALSE]
    /\ replaced = [t \in Threads |-> FALSE]
    /\ rf_tmp = [t \in Threads |-> NoTable]
    /\ rf_result = [t \in Threads |-> "none"]
    /\ last_refresh_time = 0
    /\ mv_now = 0
    /\ is_periodically_refreshed = FALSE
    /\ task_active = FALSE
    /\ task_scheduled = NotScheduled
    /\ mv_life = "constructed"
    /\ rd_pc = "idle"
    /\ rd_id = [table_name |-> Inner, uuid |-> 0]
    /\ rd_storage = NoTable
    /\ rd_kind = "read"
    /\ rd_lock = NoTable

IdleAgg ==
    /\ keys_size = 1
    /\ empty_result_for_aggregation_by_empty_set = FALSE
    /\ many_data = <<>>
    /\ wr_pc = [w \in AggWriters |-> "idle"]
    /\ wr_block = [w \in AggWriters |-> EmptySrcBlock]
    /\ wr_result = [w \in AggWriters |-> "none"]
    /\ executed = <<>>
    /\ agg_last = "none"
    /\ read_result = {}
    /\ agg_life = "live"

IdleLife ==
    /\ query = [select |-> 1, to_table_id |-> EmptyId, storage |-> TRUE,
                to_inner_uuid |-> Nil, uuid |-> Nil, attach_ |-> FALSE,
                select_table_id_empty |-> FALSE]
    /\ db_tables = [id \in TargetIds |-> "absent"]
    /\ dependencies = {}
    /\ has_inner_table = FALSE
    /\ view_target = EmptyId
    /\ inner_created = FALSE
    /\ lf_pc = "checks"
    /\ lf_last = "none"
    /\ lf_ops = 0

IdleReg ==
    /\ loadable_objects_from_filesystem = [n \in Names |-> NoEntry]
    /\ loadable_objects_from_databases = [n \in Names |-> NoEntry]
    /\ failed_loadable_objects = [n \in Names |-> NoEntry]
    /\ update_times = [n \in Names |-> 0]
    /\ last_modification_times = [f \in Paths |-> 0]
    /\ loadable_objects_defined_in_config = [f \in Paths |-> {}]
    /\ is_initialized = FALSE
    /\ reloading_thread = FALSE
    /\ all_mutex = "none"
    /\ update_settings = [backoff_initial_sec |-> 1, backoff_max_sec |-> 2]
    /\ object_profile = [lifetime |-> <<1, 1>>, supportUpdates |-> TRUE]
    /\ config_files = [f \in Paths |-> {}]
    /\ config_mtime = [f \in Paths |-> 1]
    /\ reg_now = 1
    /\ th = [t \in RegThreads |-> IdleThread]
    /\ crashed = FALSE

notLock == <<copyVars, fanVars, mvVars, regVars, aggVars, lifeVars, dictVars>>
notDict == <<copyVars, fanVars, mvVars, regVars, aggVars, lifeVars, lockVars>>
notCopy == <<fanVars, mvVars, regVars, aggVars, lifeVars, lockVars, dictVars>>
notFan == <<copyVars, mvVars, regVars, aggVars, lifeVars, lockVars, dictVars>>
notMV == <<copyVars, fanVars, regVars, aggVars, lifeVars, lockVars, dictVars>>
notReg == <<copyVars, fanVars, mvVars, aggVars, lifeVars, lockVars, dictVars>>
notAgg == <<copyVars, fanVars, mvVars, regVars, lifeVars, lockVars, dictVars>>
notLife == <<copyVars, fanVars, mvVars, regVars, aggVars, lockVars, dictVars>>

NextLock ==
    \/ \E t \in LockThreads : LockStart(t) /\ UNCHANGED notLock
    \/ \E t \in LockThreads : LockAcquire(t) /\ UNCHANGED notLock
    \/ \E t \in LockThreads : LockRelease(t) /\ UNCHANGED notLock
    \/ \E t \in LockThreads : LockReturn(t) /\ UNCHANGED notLock

InitSpecLock == IdleCopy /\ IdleFan /\ IdleMV /\ IdleReg /\ IdleAgg /\ IdleLife /\ InitLock /\ IdleDict

SpecLock == InitSpecLock /\ [][NextLock]_vars

\* a thread that can run does run, and a thread that waits for a mutex that is
\* free again and again gets it
FairLock ==
    \A t \in LockThreads :
        /\ WF_vars(LockRelease(t) /\ UNCHANGED notLock)
        /\ WF_vars(LockReturn(t) /\ UNCHANGED notLock)
        /\ SF_vars(LockAcquire(t) /\ UNCHANGED notLock)

SpecLockFair == InitSpecLock /\ [][NextLock]_vars /\ FairLock

NextDict ==
    \/ DictIdOrKey /\ UNCHANGED notDict
    \/ DictRange /\ UNCHANGED notDict
    \/ DictAttributes /\ UNCHANGED notDict

InitSpecDict == IdleCopy /\ IdleFan /\ IdleMV /\ IdleReg /\ IdleAgg /\ IdleLife /\ IdleLock /\ InitDict

SpecDict == InitSpecDict /\ [][NextDict]_vars

NextCopy ==
    \/ CopyRead /\ UNCHANGED notCopy
    \/ CopyLoopCancel /\ UNCHANGED notCopy
    \/ CopyEmit /\ UNCHANGED notCopy
    \/ CopyNoData /\ UNCHANGED notCopy
    \/ CopyCancelBeforeMeta /\ UNCHANGED notCopy
    \/ CopyMeta /\ UNCHANGED notCopy
    \/ CopyCancelBeforeSuffix /\ UNCHANGED notCopy
    \/ CopyFinish /\ UNCHANGED notCopy
    \/ SetCancelled /\ UNCHANGED notCopy

InitSpecCopy == InitCopy /\ IdleFan /\ IdleMV /\ IdleReg /\ IdleAgg /\ IdleLife /\ IdleLock /\ IdleDict

SpecCopy == InitSpecCopy /\ [][NextCopy]_vars

NextFan ==
    \/ writePrefix /\ UNCHANGED notFan
    \/ writeSuffix /\ UNCHANGED notFan
    \/ flush /\ UNCHANGED notFan
    \/ write /\ UNCHANGED notFan

InitSpecFan == IdleCopy /\ InitFan /\ IdleMV /\ IdleReg /\ IdleAgg /\ IdleLife /\ IdleLock /\ IdleDict

SpecFan == InitSpecFan /\ [][NextFan]_vars

NextMV ==
    \/ startup /\ UNCHANGED notMV
    \/ shutdown /\ UNCHANGED notMV
    \/ MvTick /\ UNCHANGED notMV
    \/ RefreshCall /\ UNCHANGED notMV
    \/ RefreshLock /\ UNCHANGED notMV
    \/ TaskFire /\ UNCHANGED notMV
    \/ TaskLock /\ UNCHANGED notMV
    \/ TaskDecide /\ UNCHANGED notMV
    \/ TaskResched /\ UNCHANGED notMV
    \/ \E t \in Threads : RefreshCreate(t) /\ UNCHANGED notMV
    \/ \E t \in Threads : RefreshInsert(t) /\ UNCHANGED notMV
    \/ \E t \in Threads : RefreshInsertEnd(t) /\ UNCHANGED notMV
    \/ \E t \in Threads : RefreshRename(t) /\ UNCHANGED notMV
    \/ \E t \in Threads : RefreshSetTarget(t) /\ UNCHANGED notMV
    \/ \E t \in Threads : RefreshDrop(t) /\ UNCHANGED notMV
    \/ \E t \in Threads : RefreshStamp(t) /\ UNCHANGED notMV
    \/ \E t \in Threads : RefreshCatch(t) /\ UNCHANGED notMV
    \/ ReadTargetId /\ UNCHANGED notMV
    \/ ReadResolve /\ UNCHANGED notMV
    \/ ReadLock /\ UNCHANGED notMV
    \/ ReadPlan /\ UNCHANGED notMV
    \/ ReadFinish /\ UNCHANGED notMV

InitSpecMV == IdleCopy /\ IdleFan /\ InitMV /\ IdleReg /\ IdleAgg /\ IdleLife /\ IdleLock /\ IdleDict

SpecMV == InitSpecMV /\ [][NextMV]_vars

NextReg ==
    \/ EditConfig /\ UNCHANGED notReg
    \/ RegTick /\ UNCHANGED notReg
    \/ addObjectFromDatabase /\ UNCHANGED notReg
    \/ removeObject /\ UNCHANGED notReg
    \/ reloadPeriodically /\ UNCHANGED notReg
    \/ init /\ UNCHANGED notReg
    \/ reload /\ UNCHANGED notReg
    \/ \E t \in RegThreads : ConfigFileEnter(t) /\ UNCHANGED notReg
    \/ \E t \in RegThreads : ConfigKeyNext(t) /\ UNCHANGED notReg
    \/ \E t \in RegThreads : ConfigFileLeave(t) /\ UNCHANGED notReg
    \/ \E t \in RegThreads : ConfigCreate(t) /\ UNCHANGED notReg
    \/ \E t \in RegThreads : ConfigInstall(t) /\ UNCHANGED notReg
    \/ \E t \in RegThreads : ConfigCatch(t) /\ UNCHANGED notReg
    \/ \E t \in RegThreads : ConfigFilesDone(t) /\ UNCHANGED notReg
    \/ \E t \in RegThreads : EraseRemoved(t) /\ UNCHANGED notReg
    \/ \E t \in RegThreads : CheckLoaded(t) /\ UNCHANGED notReg
    \/ \E t \in RegThreads : RetryLock(t) /\ UNCHANGED notReg
    \/ \E t \in RegThreads : RetryNext(t) /\ UNCHANGED notReg
    \/ \E t \in RegThreads : RetryClone(t) /\ UNCHANGED notReg
    \/ \E t \in RegThreads : RetryInstall(t) /\ UNCHANGED notReg
    \/ \E t \in RegThreads : RetryDone(t) /\ UNCHANGED notReg
    \/ \E t \in RegThreads : UpdateCollect(t) /\ UNCHANGED notReg
    \/ \E t \in RegThreads : UpdateClone(t) /\ UNCHANGED notReg
    \/ \E t \in RegThreads : UpdateInstall(t) /\ UNCHANGED notReg
    \/ \E t \in RegThreads : UpdateDone(t) /\ UNCHANGED notReg

InitSpecReg == IdleCopy /\ IdleFan /\ IdleMV /\ InitReg /\ IdleAgg /\ IdleLife /\ IdleLock /\ IdleDict

SpecReg == InitSpecReg /\ [][NextReg]_vars

NextAgg ==
    \/ \E w \in AggWriters : AggWrite(w) /\ UNCHANGED notAgg
    \/ \E w \in AggWriters : AggCheck(w) /\ UNCHANGED notAgg
    \/ \E w \in AggWriters : AggExecute(w) /\ UNCHANGED notAgg
    \/ AggRead /\ UNCHANGED notAgg
    \/ AggTruncate /\ UNCHANGED notAgg
    \/ AggDrop /\ UNCHANGED notAgg

InitSpecAgg == IdleCopy /\ IdleFan /\ IdleMV /\ IdleReg /\ InitAgg /\ IdleLife /\ IdleLock /\ IdleDict

SpecAgg == InitSpecAgg /\ [][NextAgg]_vars

NextLife ==
    \/ CtorChecks /\ UNCHANGED notLife
    \/ CtorSelfCheck /\ UNCHANGED notLife
    \/ CtorTarget /\ UNCHANGED notLife
    \/ CtorDependency /\ UNCHANGED notLife
    \/ LifeInsert /\ UNCHANGED notLife
    \/ LifeInnerDropped /\ UNCHANGED notLife
    \/ drop /\ UNCHANGED notLife
    \/ truncate /\ UNCHANGED notLife

InitSpecLife == IdleCopy /\ IdleFan /\ IdleMV /\ IdleReg /\ IdleAgg /\ InitLife /\ IdleLock /\ IdleDict

SpecLife == InitSpecLife /\ [][NextLife]_vars

(***************************************************************************)
(* Claims about copyData                                                   *)
(***************************************************************************)
\* the writePrefix / write / writeSuffix calls of a sink log
FrameCalls(log) ==
    SelectSeq([i \in 1..Len(log) |-> log[i].call],
              LAMBDA e : e \in {"writePrefix", "write", "writeSuffix"})

\* number of frames open after the first k calls of log
Depth(log, k) ==
    Cardinality({i \in 1..k : log[i] = "writePrefix"})
    - Cardinality({i \in 1..k : log[i] = "writeSuffix"})

\* every writeSuffix closes its own writePrefix, with a write in between, and no
\* writePrefix is left without its writeSuffix
WellFormedFrames(log) ==
    /\ Count(log, "writePrefix") = Count(log, "writeSuffix")
    /\ \A k \in 0..Len(log) : Depth(log, k) \in {0, 1}
    /\ \A j \in Positions(log, "writeSuffix") :
          \E i \in Positions(log, "writePrefix") :
             /\ i < j
             /\ \A m \in (i + 1)..(j - 1) : log[m] # "writePrefix" /\ log[m] # "writeSuffix"
             /\ \E m \in (i + 1)..(j - 1) : log[m] = "write"

\* C1: copyData without cancellation, for every input sequence with arbitrary frame
\* markers: the sink receives writePrefix and writeSuffix equally often, every
\* writeSuffix is preceded by its own writePrefix with at least one write between
\* them, and an empty input gives exactly one writePrefix, one writeSuffix and no
\* write.
C1_FrameWellFormed ==
    (cp_pc = "returned" /\ ~is_cancelled) =>
        IF from_blocks = <<>>
        THEN FrameCalls(to_log) = <<"writePrefix", "writeSuffix">>
        ELSE WellFormedFrames(FrameCalls(to_log))

(***************************************************************************)
(* Claims about PushingToViewsBlockOutputStream                            *)
(***************************************************************************)
\* C2: writePrefix, writeSuffix and flush reach every held sink, the primary sink and
\* each view's sub-writer: every held sink has seen as many of each as were called
\* on the writer (with one view V, writePrefix then writeSuffix give T and V one
\* prefix/suffix pair each and no block).
C2_BroadcastToAllHeldSinks ==
    \A s \in HeldSinks :
        /\ Count(SinkLog(s), <<"writePrefix", 0>>) = calls.prefix
        /\ Count(SinkLog(s), <<"writeSuffix", 0>>) = calls.suffix
        /\ Count(SinkLog(s), <<"flush", 0>>) = calls.flush

\* positions in sink_log where sink s received block b
WritePos(s, b) == {i \in 1..Len(sink_log) : sink_log[i] = <<s, <<"write", b>>>>}

\* C3: write(block) is serial and best-effort: the block goes to the primary sink
\* first and then to the views in order; when a view sink throws, the error reaches
\* the caller, no later view receives the block, and what the primary sink and the
\* earlier views received stays written.
C3_WriteSerialBestEffort ==
    LET b == last_write.block
        k == last_write.thrower
    IN b > 0 =>
        /\ \A s \in HeldSinks :
              IF k = 0 \/ s < k
              THEN Cardinality(WritePos(s, b)) = 1
              ELSE WritePos(s, b) = {}
        /\ \A s, t \in HeldSinks :
              (s < t /\ WritePos(s, b) # {} /\ WritePos(t, b) # {}) =>
                  \A i \in WritePos(s, b), j \in WritePos(t, b) : i < j

\* a write in which the first of two views throws, with a primary sink
C3_Witness ==
    /\ output
    /\ views = 2
    /\ last_write.block > 0
    /\ last_write.thrower = 1

(***************************************************************************)
(* Claims about ExternalLoader                                             *)
(***************************************************************************)
\* C4: in every reachable state no name is a key of both
\* loadable_objects_from_filesystem and loadable_objects_from_databases with both
\* entries holding a non-null loadable.
C4_NoNameInBothMaps ==
    \A name \in Names :
        ~ /\ loadable_objects_from_filesystem[name] # NoEntry
          /\ loadable_objects_from_filesystem[name].loadable # Null
          /\ loadable_objects_from_databases[name] # NoEntry
          /\ loadable_objects_from_databases[name].loadable # Null

\* C5 as stated: in every reachable state get(name) throws when the name is
\* unknown and whenever the entry holds a stored exception, and tryGet(name)
\* returns empty in both cases.
C5_GetFailsOnStoredException ==
    \A name \in Names :
        LET it == loadable_objects_from_filesystem[name]
        IN (it = NoEntry \/ it.exception) =>
              /\ getLoadable(name) = Throws
              /\ tryGetLoadable(name) = Returns(Null)

\* C5, amended: in every reachable state get(name) throws exactly when the name is
\* unknown or its entry holds no loadable, and tryGet(name) returns empty in
\* exactly these cases; an entry without a loadable always holds the exception
\* that get rethrows; an entry that holds a loadable is returned by both, also
\* when an exception is stored next to it.
C5_GetFailsOnlyWithoutLoadable ==
    \A name \in Names :
        LET it == loadable_objects_from_filesystem[name]
        IN /\ it = NoEntry =>
                 getLoadable(name) = Throws /\ tryGetLoadable(name) = Returns(Null)
           /\ (it # NoEntry /\ it.loadable = Null) =>
                 /\ it.exception
                 /\ getLoadable(name) = Throws
                 /\ tryGetLoadable(name) = Returns(Null)
           /\ (it # NoEntry /\ it.loadable # Null) =>
                 /\ getLoadable(name) = Returns(it.loadable)
                 /\ tryGetLoadable(name) = Returns(it.loadable)

\* an entry holds an old version next to the exception of a failed attempt, and
\* get returns the old version
C5_Witness ==
    \E name \in Names :
        LET it == loadable_objects_from_filesystem[name]
        IN /\ it # NoEntry
           /\ it.exception
           /\ it.loadable # Null
           /\ getLoadable(name) = Returns(it.loadable)

\* thread t makes a step that ends its attempt to clone a failed object in failure
RetryFails(t) ==
    /\ th[t].pc = "retry_clone"
    /\ th'[t].pc \notin {"retry_clone", "retry_install"}

\* C6: every failed load attempt on an object of the failure set, whether clone()
\* raises or the clone reports a creation exception, increments its error_count
\* by exactly one.
C6_ErrorCountCountsFailures ==
    [][\A t \in RegThreads :
          RetryFails(t) =>
             failed_loadable_objects'[th[t].name].error_count
                = failed_loadable_objects[th[t].name].error_count + 1]_vars

\* C7: after every failed attempt on an object of the failure set the rescheduled
\* next_attempt_time lies between now + backoff_initial_sec and
\* now + backoff_max_sec.
C7_BackoffWithinBounds ==
    [][\A t \in RegThreads :
          RetryFails(t) =>
             LET next_attempt_time ==
                    failed_loadable_objects'[th[t].name].next_attempt_time
             IN /\ reg_now + update_settings.backoff_initial_sec <= next_attempt_time
                /\ next_attempt_time <= reg_now + update_settings.backoff_max_sec]_vars

\* thread t makes the step that follows a successful clone() of a failed object
RetrySucceeds(t) ==
    /\ th[t].pc = "retry_install"
    /\ th'[t] # th[t] \/ crashed'

\* C8: a failed object is attempted only when its next_attempt_time has come, and
\* when its clone() succeeds the new version is in loadable_objects_from_filesystem
\* with the stored exception cleared, and get(name) returns the new object.
C8_RecoveryInstallsClone ==
    [][\A t \in RegThreads :
          /\ (th[t].pc = "retry" /\ th'[t].pc = "retry_clone") =>
                failed_loadable_objects[th'[t].name].next_attempt_time <= reg_now
          /\ RetrySucceeds(t) =>
                LET it == loadable_objects_from_filesystem'[th[t].name]
                IN /\ it # NoEntry
                   /\ it.loadable = th[t].obj
                   /\ ~it.exception
                   /\ \A name \in Names :
                         name = th[t].name =>
                            getLoadable(name)' = Returns(th[t].obj)]_vars

\* C9: every installation of a clone, in the retry phase and in the update phase,
\* finds out under the map lock whether the entry is still there, and when the
\* entry was removed it skips the installation: nothing is written through the
\* missing entry and the name does not count as recreated.
C9_InstallRechecksEntry ==
    [][\A t \in RegThreads :
          /\ th[t].pc \in {"retry_install", "update_install"}
          /\ th'[t] # th[t] \/ crashed'
          /\ ObjectsMap(IF th[t].pc = "retry_install" THEN "filesystem" ELSE th[t].map)
                [th[t].name] = NoEntry
          => /\ ~crashed'
             /\ th'[t].recreated = th[t].recreated
             /\ loadable_objects_from_filesystem' = loadable_objects_from_filesystem
             /\ loadable_objects_from_databases' = loadable_objects_from_databases]_vars

(***************************************************************************)
(* Claims about StorageMaterializedView                                    *)
(***************************************************************************)
\* C10: while a refresh runs concurrently with readers of the view, every read
\* resolves the view's target to the complete old target table or to the complete
\* newly built table: no reader reads a table that is still being built, and no
\* reader finds the target missing.
C10_ReadersSeeOldOrNewTarget ==
    /\ rd_pc # "no_table"
    /\ rd_pc = "reading" =>
          /\ rd_storage # NoTable
          /\ table_state[rd_storage] \notin {"unused", "empty", "partial"}

\* C11: when refresh fails after the tmp table was created and before the
\* exchange, the catch block drops the tmp table and the error leaves refresh
\* (the error of the DROP when the DROP itself fails, and only then the tmp table
\* stays); target_table_id, the table it resolves to, the contents of every table
\* but the tmp table, and last_refresh_time are what they were.
C11_FailedRefreshCleansUp ==
    [][\A t \in Threads :
          /\ rf_pc[t] = "catch"
          /\ rf_pc'[t] # "catch"
          /\ created[t] /\ ~replaced[t]
          /\ catalog[Tmp] = rf_tmp[t]
          => /\ rf_result'[t] \in {"error", "drop_error"}
             /\ rf_result'[t] = "error" =>
                   /\ catalog'[Tmp] = NoTable
                   /\ table_state'[rf_tmp[t]] = "dropped"
             /\ target_table_id' = target_table_id
             /\ getTargetTable' = getTargetTable
             /\ \A u \in Tables \ {rf_tmp[t]} : table_state'[u] = table_state[u]
             /\ last_refresh_time' = last_refresh_time]_vars

\* a refresh failed between the creation of its tmp table and the exchange: the
\* tmp table is dropped and the view still resolves to a complete table
C11_Witness ==
    \E t \in Threads :
        /\ rf_pc[t] = "idle"
        /\ rf_result[t] = "error"
        /\ created[t] /\ ~replaced[t]
        /\ rf_tmp[t] # NoTable
        /\ table_state[rf_tmp[t]] = "dropped"
        /\ catalog[Tmp] = NoTable
        /\ getTargetTable # NoTable
        /\ table_state[getTargetTable] = "complete"

\* C11 as stated, without the case of a failing cleanup: every failed refresh
\* that created the tmp table and did not exchange it ends with the tmp table
\* dropped and the caught error rethrown.
C11_FailedRefreshDropsTmp ==
    [][\A t \in Threads :
          /\ rf_pc[t] = "catch"
          /\ rf_pc'[t] # "catch"
          /\ created[t] /\ ~replaced[t]
          /\ catalog[Tmp] = rf_tmp[t]
          => /\ rf_result'[t] = "error"
             /\ catalog'[Tmp] = NoTable
             /\ table_state'[rf_tmp[t]] = "dropped"]_vars

\* C12: when refresh returns normally, the target name refers to the table this
\* refresh created as .tmp<inner> and filled, the view's target is that table,
\* no other table is left alive, and last_refresh_time is the time of return.
C12_RefreshInstallsNewTable ==
    [][\A t \in Threads :
          /\ rf_pc[t] = "stamp"
          /\ rf_pc'[t] # "stamp"
          => /\ catalog'[Inner] = rf_tmp[t]
             /\ getTargetTable' = rf_tmp[t]
             /\ table_state'[rf_tmp[t]] = "complete"
             /\ \A u \in Tables \ {rf_tmp[t]} : table_state'[u] \in {"unused", "dropped"}
             /\ last_refresh_time' = mv_now]_vars

\* C13: every firing of the periodic task of an active task ends with the task
\* scheduled again, at now + max(0, last_refresh_time + Period - now).
C13_FiringEndsRearmed ==
    [][/\ rf_pc["task"] # "idle"
       /\ rf_pc'["task"] = "idle"
       /\ task_active
       => /\ task_scheduled' # NotScheduled
          /\ task_scheduled' = mv_now + NextDelay']_vars

\* the statements of refresh between its lock and its return, catch block included
InRefreshBody(t) ==
    rf_pc[t] \in {"create", "insert", "insert_end", "rename", "set_target", "drop",
                  "stamp", "catch"}

\* C14: at most one thread executes the body of refresh, and the one that does
\* holds the mutex; a firing of the task holds it from its lock to its end.
C14_OneRefreshAtATime ==
    /\ Cardinality({t \in Threads : InRefreshBody(t)}) <= 1
    /\ \A t \in Threads : InRefreshBody(t) => mutex = t
    /\ rf_pc["task"] \in {"decide", "resched"} => mutex = "task"

C14_Witness ==
    \E t, u \in Threads :
        /\ t # u
        /\ InRefreshBody(t) /\ rf_pc[t] = "insert_end"
        /\ rf_pc[u] = "lock"
        /\ mutex = t

\* ---- claims: ExternalLoader, the update phase ----

\* the condition C15 gives for an entry, apart from the answer of isModified()
StatedDue(name, object) ==
    /\ object.loadable # Null
    /\ object_profile.supportUpdates
    /\ object_profile.lifetime # <<0, 0>>
    /\ reg_now >= update_times[name]

\* C15: when updateObjects collects the objects of a map, an entry that supports
\* updates, has a lifetime other than (0,0) and has reached its update time is
\* selected for clone() whenever isModified() answers true, and no other entry is.
C15_UpdatedIffDue ==
    \A t \in RegThreads :
        ~crashed /\ th[t].pc = "update_collect" =>
            \A name \in Names :
                LET object == ObjectsMap(th[t].map)[name]
                IN IF object # NoEntry /\ StatedDue(name, object)
                   THEN ENABLED (UpdateCollect(t) /\ name \in th'[t].to_update)
                   ELSE ~ENABLED (UpdateCollect(t) /\ name \in th'[t].to_update)

\* C16: an object whose lifetime has max_sec < min_sec is never selected by the
\* update phase and clone() is never called on it there.
C16_InvertedLifetimeNeverUpdated ==
    object_profile.lifetime[2] < object_profile.lifetime[1] =>
        \A t \in RegThreads :
            /\ th[t].pc \in {"update", "update_install"} => th[t].to_update = {}
            /\ th[t].pc # "update_install"

\* a step of t that installs the new version of `name` made by the update phase
UpdateInstalls(t, name) ==
    /\ th[t].pc = "update_install"
    /\ th'[t] # th[t]
    /\ th[t].name = name
    /\ ~th[t].exception
    /\ ObjectsMap(th[t].map)[name] # NoEntry

\* C17: for a lifetime with min_sec <= max_sec, every update time that is stored
\* lies between now + min_sec and now + max_sec, and the update phase installs a
\* new version of an object only when the update time stored for it has come.
C17_UpdateTimesWithinLifetime ==
    [][object_profile.lifetime[1] <= object_profile.lifetime[2] =>
          \A name \in Names :
              /\ update_times'[name] # update_times[name] =>
                    /\ update_times'[name] >= reg_now + object_profile.lifetime[1]
                    /\ update_times'[name] <= reg_now + object_profile.lifetime[2]
              /\ \A t \in RegThreads :
                    UpdateInstalls(t, name) => reg_now >= update_times[name]]_vars

\* ---- claims: ExternalLoader, provenance ----

\* the names that the listed config files declare
DeclaredNames == UNION {config_files[f] : f \in ListedPaths}

\* the scan of t saw the files as they are now: the list it took is the list of
\* now, and every listed file was last parsed in its present version
ScanIsCurrent(t) ==
    /\ th[t].config_paths = ListedPaths
    /\ \A f \in ListedPaths : last_modification_times[f] = config_mtime[f]

\* C18: when reloadFromConfigFiles completes a scan of the files as they are now,
\* every entry left in loadable_objects_from_filesystem has a name that a listed
\* config file declares.
C18_ScanRemovesUndeclared ==
    [][\A t \in RegThreads :
          /\ th[t].pc = "erase"
          /\ th'[t] # th[t]
          /\ ScanIsCurrent(t)
          => \A name \in Names :
                loadable_objects_from_filesystem'[name] # NoEntry
                    => name \in DeclaredNames]_vars

\* C19: a name that has a file entry gets no catalog entry (addObjectFromDatabase
\* fails), and a file object whose name has a catalog entry is not built: the
\* key's step ends in the error path, and neither pre-existing entry changes.
C19_ProvenanceConflictsFail ==
    [][\A name \in Names :
          /\ /\ loadable_objects_from_filesystem[name] # NoEntry
             /\ loadable_objects_from_databases[name] = NoEntry
             => loadable_objects_from_databases'[name] = NoEntry
          /\ \A t \in RegThreads :
                /\ th[t].pc = "keys"
                /\ th'[t] # th[t]
                /\ name \in th[t].keys \ th'[t].keys
                /\ th[t].only \in {NoName, name}
                /\ loadable_objects_from_databases[name] # NoEntry
                => /\ th'[t].pc = "catch"
                   /\ loadable_objects_from_databases'[name] =
                         loadable_objects_from_databases[name]]_vars

\* ---- claims: ExternalLoader, init ----

\* C20: once a call of init has returned, normally or with an exception, the
\* thread that runs reloadPeriodically exists.
C20_InitStartsReloadingThread ==
    ~crashed /\ is_initialized /\ th["api"].op # "init" => reloading_thread

(***************************************************************************)
(* Claims about copyData: cancellation, metadata, complete frames          *)
(***************************************************************************)
\* the flag is set and copyData is at one of its three tests of the flag, or has
\* left the loop by the break of the first one
CancelObserved ==
    /\ isAtomicSet
    /\ \/ cp_pc \in {"loop_cancel", "cancel_before_meta", "cancel_before_suffix"}
       \/ cp_pc = "no_data" /\ ~no_data

\* C21: from the moment copyData tests the flag and finds it set, the flag stays
\* set, the sink receives no further call, and copyData goes on to its return
\* through tests of the flag only.
C21_CancellationIsFinal ==
    [][CancelObserved =>
          /\ to_log' = to_log
          /\ is_cancelled'
          /\ CancelObserved' \/ cp_pc' = "returned"]_vars

\* cancellation was observed in the loop, with a frame open: the block read last
\* was never written and the frame was never closed
C21_Witness ==
    /\ cp_pc = "returned"
    /\ isAtomicSet
    /\ open_frame
    /\ from_pos = 2
    /\ to_log = <<Call("setSampleBlock", 1), Call("writePrefix", 0), Call("write", 1)>>

\* the positions in log of the calls with the given name
CallPositions(log, name) == {i \in 1..Len(log) : log[i].call = name}

\* the metadata calls that copyData owes the sink for the input's profiling info
MetaNames == (IF profiling[2] THEN {"setRowsBeforeLimit"} ELSE {}) \cup {"setTotals", "setExtremes"}

\* C22: when copyData has returned without cancellation from an input that
\* exposes profiling info, the sink has received each metadata call once, after
\* every write and before the last writeSuffix.
C22_MetadataBeforeLastSuffix ==
    (cp_pc = "returned" /\ ~is_cancelled /\ profiling[1]) =>
        /\ CallPositions(to_log, "writeSuffix") # {}
        /\ \A name \in MetaNames :
              /\ Cardinality(CallPositions(to_log, name)) = 1
              /\ \A m \in CallPositions(to_log, name) :
                    /\ \A w \in CallPositions(to_log, "write") : w < m
                    /\ \E x \in CallPositions(to_log, "writeSuffix") : m < x

\* the input is made of complete frames: a block starts a frame iff it is the
\* first block or follows a block that ends one, and the last block ends a frame
CompleteFrames(blocks) ==
    /\ blocks # <<>>
    /\ blocks[Len(blocks)].is_end_frame
    /\ \A i \in 1..Len(blocks) :
          blocks[i].is_start_frame <=> (i = 1 \/ blocks[i - 1].is_end_frame)

\* what the sink is to receive for the first n blocks of such an input
RECURSIVE ExpectedCalls(_, _)
ExpectedCalls(blocks, n) ==
    IF n = 0 THEN <<>>
    ELSE ExpectedCalls(blocks, n - 1)
         \o (IF n = 1 \/ blocks[n - 1].is_end_frame
             THEN <<Call("setSampleBlock", n), Call("writePrefix", 0)>>
             ELSE <<>>)
         \o <<Call("write", n)>>
         \o (IF blocks[n].is_end_frame THEN <<Call("writeSuffix", 0)>> ELSE <<>>)

\* the calls of a sink log other than the metadata calls
DataCalls(log) ==
    SelectSeq(log, LAMBDA e : e.call \in {"setSampleBlock", "writePrefix", "write",
                                          "writeSuffix"})

C24_TaskFiresOnlyWhileArmed ==
    [][/\ mv_life = "constructed" =>
             ~task_active /\ task_scheduled = NotScheduled /\ rf_pc["task"] = "idle"
       /\ rf_pc["task"] = "idle" /\ rf_pc'["task"] # "idle" =>
             mv_life = "started" /\ is_periodically_refreshed /\ task_active
       /\ mv_life = "constructed" /\ mv_life' = "started" /\ is_periodically_refreshed =>
             task_active' /\ task_scheduled' = mv_now
       /\ mv_life' = "shutdown" =>
             ~task_active' /\ task_scheduled' = NotScheduled /\ rf_pc'["task"] = "idle"]_vars

\* the view was started, its task fired and refreshed, and shutdown has returned
C24_Witness ==
    /\ mv_life = "shutdown"
    /\ is_periodically_refreshed
    /\ rf_result["task"] = "ok"
    /\ ~task_active

(***************************************************************************)
(* Claims about StorageMaterializedView: the target table's lock.          *)
(***************************************************************************)

\* a read or a write over the target is in progress
QueryInProgress == rd_pc \in {"locked", "reading"}

FreshRead == prepareVariantsToMerge(FreshVariants)

\* C27: truncate clears the aggregation state: a read that follows a truncate
\* returns what a read of a freshly constructed table returns
C27_TruncateClearsState ==
    [][agg_last = "truncate" /\ agg_last' = "read" => read_result' = FreshRead]_vars

\* C28: a write of a block that does not have the pre-aggregation shape throws
\* at the shape check and leaves the shared variants as they were; no such block
\* is ever given to executeOnBlock
C28_MisshapenWriteRejected ==
    [][/\ \A i \in 1..Len(executed') : executed'[i].shape = "src"
       /\ \A w \in AggWriters :
             (wr_pc[w] = "check" /\ wr_pc'[w] # "check" /\ wr_block[w].shape # "src")
             => /\ wr_result'[w] = "threw"
                /\ wr_pc'[w] = "idle"
                /\ many_data' = many_data
                /\ executed' = executed]_vars

\* a misshapen write was rejected while the table held rows and the other writer
\* was inside write
C28_Witness ==
    /\ wr_result["w1"] = "threw"
    /\ wr_block["w1"].shape = "other"
    /\ wr_pc["w2"] = "execute"
    /\ Len(executed) >= 1

Returned(op) == lf_ops' = lf_ops + 1 /\ lf_last' = op

\* C25: a drop that returns leaves no dependency edge to the view and, for a view
\* with an inner table that still exists, no inner table; a truncate that
\* returns leaves the inner table of such a view empty; for a view with a TO
\* table neither changes any table
C25_DropAndTruncateEffects ==
    [][/\ Returned("drop") =>
             /\ ViewDependency \notin dependencies'
             /\ lf_pc' = "dropped"
             /\ IF has_inner_table
                THEN /\ db_tables'[view_target] = "absent"
                     /\ \A id \in TargetIds \ {view_target} :
                           db_tables'[id] = db_tables[id]
                ELSE db_tables' = db_tables
       /\ Returned("truncate") =>
             /\ dependencies' = dependencies
             /\ IF has_inner_table
                THEN /\ db_tables'[view_target] = "empty"
                     /\ \A id \in TargetIds \ {view_target} :
                           db_tables'[id] = db_tables[id]
                ELSE db_tables' = db_tables]_vars

\* a view with an inner table that was truncated, filled again and dropped
C25_Witness ==
    /\ has_inner_table
    /\ inner_created
    /\ lf_pc = "dropped"
    /\ lf_last = "drop"
    /\ lf_ops = 3
    /\ db_tables[InnerId] = "absent"
    /\ ViewDependency \notin dependencies
    /\ ~query.select_table_id_empty

\* the query asks for a view whose target is the view itself
PointsToItself ==
    \/ /\ query.to_table_id = EmptyId
       /\ query.to_inner_uuid # Nil
       /\ query.to_inner_uuid = query.uuid
    \/ query.to_table_id = ViewId

\* C30: the constructor of a view that points to itself throws before it has
\* created an inner table or added a dependency
C30_SelfReferenceRejected ==
    PointsToItself =>
        /\ lf_pc \in {"checks", "self_check", "threw"}
        /\ ~inner_created
        /\ db_tables[InnerId] \in {"absent", "filled"}
        /\ dependencies = {}
        /\ view_target = EmptyId

\* a view with an inner table whose requested UUID is the view's own was rejected
\* at the self-reference check
C30_Witness ==
    /\ point_to_itself_by_uuid
    /\ query.select = 1
    /\ query.storage
    /\ ~query.attach_
    /\ db_tables[InnerId] = "absent"
    /\ lf_pc = "threw"

(***************************************************************************)
(* Claims about copyData: the empty, cancelled input.                      *)
(***************************************************************************)

\* the input was empty and copyData is at line 68 with the flag set
EmptyInputCancelled ==
    /\ from_blocks = <<>>
    /\ cp_pc = "cancel_before_meta"
    /\ isAtomicSet

\* C37: on an empty input with the flag set when the input has ended, the sink
\* has received one writePrefix and nothing else, and copyData returns from
\* there without another call on the sink
C37_EmptyCancelledInputOnlyPrefix ==
    [][EmptyInputCancelled =>
          /\ to_log = <<Call("writePrefix", 0)>>
          /\ to_log' = to_log
          /\ cp_pc' = "returned"]_vars

\* copyData has returned from an empty profiling input at line 68: the metadata
\* it would have forwarded and the writeSuffix never reached the sink
C37_Witness ==
    /\ cp_pc = "returned"
    /\ from_blocks = <<>>
    /\ profiling[1]
    /\ isAtomicSet
    /\ open_frame
    /\ to_log = <<Call("writePrefix", 0)>>

(***************************************************************************)
(* Claims about StorageMaterializedView: when a firing refreshes.          *)
(***************************************************************************)

\* now - last_refresh_at >= period, in whole seconds
PeriodHasPassed == mv_now - last_refresh_time >= Period

\* C38: a firing of the periodic task goes into refresh if and only if the
\* period has passed since the last refresh; a firing that does not refresh
\* leaves the catalog, the tables, the target and last_refresh_time as they are
C38_FiringRefreshesIffDue ==
    [][/\ (rf_pc["task"] = "decide" /\ rf_pc'["task"] # "decide") =>
             /\ rf_pc'["task"] = IF PeriodHasPassed THEN "create" ELSE "resched"
             /\ ~PeriodHasPassed =>
                   UNCHANGED <<catalog, table_state, target_table_id, last_refresh_time>>
       /\ rf_pc["task"] = "resched" =>
             UNCHANGED <<catalog, table_state, target_table_id, last_refresh_time>>]_vars

\* a firing that found the last refresh too recent is about to reschedule
\* without having refreshed
C38_Witness ==
    /\ rf_pc["task"] = "resched"
    /\ ~created["task"]
    /\ last_refresh_time > 0
    /\ ~PeriodHasPassed

(***************************************************************************)
(* Claims about StorageMaterializedView: the exchange and the tmp table.   *)
(***************************************************************************)

\* C40: the rename request of refresh holds one element, so a rename that
\* goes through has swapped .tmp<inner> and the target exactly once
C40_OneExchangePerRefresh ==
    [][\A t \in Threads :
          (rf_pc[t] = "rename" /\ rf_pc'[t] = "set_target")
          => /\ \A elements \in RenameElements : Len(elements) = 1
             /\ catalog'[Inner] = catalog[Tmp]
             /\ catalog'[Tmp] = catalog[Inner]]_vars

\* C34: when refresh returns, normally or with an error, the catalog holds no
\* table named .tmp<inner>
C34_NoTmpAfterRefresh ==
    [][\A t \in Threads :
          (InRefreshBody(t) /\ ~InRefreshBody(t)')
          => catalog'[Tmp] = NoTable]_vars

(***************************************************************************)
(* Claims about ExternalLoader: entries and the failure set.               *)
(***************************************************************************)

\* the entry of name holds a loadable, and the config file it came from declares
\* the name in the version the registry has seen last
LoadedAndDeclared(name) ==
    LET entry == loadable_objects_from_filesystem[name]
    IN /\ entry # NoEntry
       /\ entry.loadable # Null
       /\ entry.origin \in Paths
       /\ config_files[entry.origin] # NoFile
       /\ name \in config_files[entry.origin]
       /\ last_modification_times[entry.origin] = config_mtime[entry.origin]

\* C32: an object that was loaded from a config file stays retrievable by
\* get(name) for as long as the file is not rewritten, whatever the threads of
\* the registry do
C32_DeclaredObjectStaysRetrievable ==
    [][\A name \in Names :
          (LoadedAndDeclared(name) /\ ~crashed' /\ config_files' = config_files)
          => /\ loadable_objects_from_filesystem'[name] # NoEntry
             /\ loadable_objects_from_filesystem'[name].loadable # Null]_vars

\* a thread has put the name into failed_loadable_objects and is on its way to
\* the catch block that gives the name its entry
FailureBeingStored(name) ==
    \E t \in RegThreads : th[t].pc = "catch" /\ th[t].name = name

\* C33: every name in failed_loadable_objects has an entry in
\* loadable_objects_from_filesystem
C33_FailedNamesHaveEntries ==
    \A name \in Names :
        (failed_loadable_objects[name] # NoEntry /\ ~FailureBeingStored(name) /\ ~crashed)
        => loadable_objects_from_filesystem[name] # NoEntry

\* thread t stores the outcome of a failed update of name into the entry of map
UpdateFails(t, map, name) ==
    /\ th[t].pc = "update_install"
    /\ th'[t] # th[t]
    /\ th[t].map = map
    /\ th[t].name = name
    /\ th[t].exception
    /\ ObjectsMap(map)[name] # NoEntry
    /\ ObjectsMap(map)[name].loadable # Null

\* C35: a failed update of an object leaves the entry its loadable, so that
\* get(name) and tryGet(name) return the old version, stores the failure as the
\* entry's exception, leaves failed_loadable_objects alone and draws a new
\* update time
C35_FailedUpdateKeepsOldVersion ==
    [][\A t \in RegThreads, name \in Names, map \in {"filesystem", "databases"} :
          UpdateFails(t, map, name) =>
             /\ ObjectsMap(map)'[name] # NoEntry
             /\ ObjectsMap(map)'[name].loadable = ObjectsMap(map)[name].loadable
             /\ ObjectsMap(map)'[name].exception
             /\ failed_loadable_objects' = failed_loadable_objects
             /\ update_times'[name] \in getNextUpdateTime
             /\ map = "filesystem" =>
                   /\ getLoadable(name)' = Returns(ObjectsMap(map)[name].loadable)
                   /\ tryGetLoadable(name)' = Returns(ObjectsMap(map)[name].loadable)]_vars

\* the reloading thread is about to store a failed update into the entry of an
\* object of a config file that holds a loadable and no exception
C35_Witness ==
    /\ th["bg"].pc = "update_install"
    /\ th["bg"].exception
    /\ th["bg"].map = "filesystem"
    /\ th["bg"].name \in Names
    /\ loadable_objects_from_filesystem["d.x"] # NoEntry
    /\ loadable_objects_from_filesystem["d.x"].loadable # Null
    /\ ~loadable_objects_from_filesystem["d.x"].exception
    /\ failed_loadable_objects["d.x"] = NoEntry
    /\ ~crashed

\* ---- Claims about ExternalLoader: the objects of the databases ----

\* 'database_name.name' is no key of the databases map, or its entry holds a
\* stored exception and no loadable
NotLoadedFromDatabase(database_name, name) ==
    LET key == QualifiedName(database_name, name)
    IN \/ key \notin Names
       \/ loadable_objects_from_databases[key] = NoEntry
       \/ /\ loadable_objects_from_databases[key].exception
          /\ loadable_objects_from_databases[key].loadable = Null

\* C39: get(database_name, name) raises when the object is not loaded from the
\* databases, and tryGet(database_name, name) returns the empty pointer
C39_GetOfDatabaseRaises ==
    \A database_name \in {"d", "e"}, name \in {"x"} :
        NotLoadedFromDatabase(database_name, name) =>
            /\ getLoadableOfDatabase(database_name, name) = Throws
            /\ tryGetLoadableOfDatabase(database_name, name) = Returns(Null)

\* ---- Claims about ExternalLoader: the order of the mutexes ----

\* all_mutex comes before the mutexes of the two maps
LockRank(m) ==
    CASE m = "all_mutex" -> 1
      [] m = "map_mutex" -> 2
      [] m = "database_objects_map_mutex" -> 3

HeldBy(t) == {m \in Mutexes : lock_owner[m] = t}

\* thread t is at a lock() call
AtLock(t) == lock_prog[t] # <<>> /\ Head(lock_prog[t]).call = "lock"

\* a thread locks a mutex only while it holds none of its rank or after it
LockOrderKept ==
    \A t \in LockThreads :
        AtLock(t) => \A m \in HeldBy(t) : LockRank(m) < LockRank(Head(lock_prog[t]).mutex)

\* no thread locks a mutex it holds
NoReacquire ==
    \A t \in LockThreads : AtLock(t) => Head(lock_prog[t]).mutex \notin HeldBy(t)

\* while an operation is running, some running operation can take its next step
NoDeadlock ==
    (\E t \in LockThreads : lock_op[t] # "idle") =>
        \E t \in LockThreads :
            /\ lock_op[t] # "idle"
            /\ AtLock(t) => lock_owner[Head(lock_prog[t]).mutex] = "none"

\* C36: the operations of the registry lock the three mutexes in one order and
\* never lock a mutex they hold, so no interleaving of them deadlocks and every
\* operation that was entered returns
C36_LocksOrderedAndOperationsReturn ==
    /\ [](LockOrderKept /\ NoReacquire /\ NoDeadlock)
    /\ \A t \in LockThreads : (lock_op[t] # "idle") ~> (lock_op[t] = "idle")

\* the reloading thread holds all_mutex and map_mutex, a reload() waits for
\* all_mutex and a third thread holds the mutex of the databases map
C36_Witness ==
    /\ HeldBy("bg") = {"all_mutex", "map_mutex"}
    /\ lock_op["api"] = "reload"
    /\ AtLock("api")
    /\ Head(lock_prog["api"]).mutex = "all_mutex"
    /\ HeldBy("ddl") = {"database_objects_map_mutex"}

\* ---- Claims about DictionaryStructure ----

\* `key` is there and no child of it is an attribute
EmptyKeySupplied ==
    /\ config.key.has
    /\ \A i \in 1..Len(config.key.elems) : config.key.elems[i] = "other"

\* C31: the constructor throws when `id` and `key` are both there, when neither
\* is, and when `key` is there without an attribute; a structure that was
\* constructed came from exactly one of them and has exactly one of id and key
C31_ExactlyOneOfIdAndKey ==
    /\ ds_pc # "start" =>
          /\ (config.id.has /\ config.key.has) => ds_pc = "threw"
          /\ (~config.id.has /\ ~config.key.has) => ds_pc = "threw"
          /\ (~config.id.has /\ EmptyKeySupplied) => ds_pc = "threw"
    /\ ds_pc = "constructed" =>
          /\ config.id.has # config.key.has
          /\ structure.id.has_value # structure.key.has_value
          /\ structure.id.has_value = config.id.has

\* the constructor threw on a `key` whose only child is no attribute
C31_Witness ==
    /\ ds_pc = "threw"
    /\ ~config.id.has
    /\ config.key.has
    /\ config.key.elems = <<"other">>

====
